---------------------------- MODULE Spec2Model ----------------------------
(***************************************************************************)
(* Model of the kirja.fi scraper (src/scraper.py, src/config.py): one      *)
(* KirjaFiScraper.run under asyncio's cooperative scheduling.  A step of   *)
(* the model is what one task executes between two suspension points       *)
(* (await of a sleep, of the network, of a file operation, of the          *)
(* semaphore, of gather).                                                  *)
(*                                                                         *)
(* Task 0 is the coroutine run (fetch_all_products, the batch loop,        *)
(* save_metadata); task t >= 1 is process_product(all_products[t]).        *)
(*                                                                         *)
(* Durations are exact rationals <<numerator, denominator>> in seconds.    *)
(***************************************************************************)
EXTENDS Integers, Sequences, FiniteSets, TLC

----------------------------------------------------------------------------
(* Configuration (src/config.py) and literals of src/scraper.py.  The      *)
(* values marked "scaled" are smaller than the repository's so that every  *)
(* limit is reached within the explored runs.                              *)

SEMAPHORE_LIMIT == 1          \* config.SEMAPHORE_LIMIT (20), scaled
MAX_RETRIES     == 2          \* config.MAX_RETRIES (3), scaled
RETRY_WAIT_MIN  == 2          \* config.RETRY_WAIT_MIN
batch_size      == 2          \* run: batch_size (100), scaled
max_pages       == 3          \* fetch_all_products: max_pages (200), scaled

HTML_REQUEST_DELAY == <<1, 10>>    \* config.HTML_REQUEST_DELAY = 0.1, the floor
DELAY_CEILING      == <<10, 1>>    \* the literal 10.0 of min(delay * 2, 10.0)
DECAY_FACTOR       == <<4, 5>>     \* the literal 0.8 of delay * 0.8

(* Bounds on what the environment does in one run: the scenarios below     *)
(* allow up to Max429 responses 429 and up to MaxErr other failures (error *)
(* statuses, transport errors, timeouts, file errors).                     *)
Max429 == 7
MaxErr == 2

(* The number of seconds a numeric Retry-After header names.               *)
RetryAfterSecs == 3

----------------------------------------------------------------------------
(* Rational arithmetic.                                                    *)

RECURSIVE GCD(_, _)
GCD(a, b) == IF b = 0 THEN a ELSE GCD(b, a % b)

Rat(n, d) == LET g == GCD(n, d) IN <<n \div g, d \div g>>

RatMul(a, b) == Rat(a[1] * b[1], a[2] * b[2])

RatLE(a, b) == a[1] * b[2] <= b[1] * a[2]

RatMin(a, b) == IF RatLE(a, b) THEN a ELSE b

RatMax(a, b) == IF RatLE(a, b) THEN b ELSE a

----------------------------------------------------------------------------
(* Products and catalogs: what the storefront serves.                      *)
(* A product is the decoded listing entry as far as the scraper reads it:  *)
(* handle ("" when missing), id, variants (each ok = it is an object with  *)
(* a sku; ok = FALSE stands for an entry that is no object, on which       *)
(* .get raises), images (src "" when missing; ext is the extension the     *)
(* URL path yields).                                                       *)

Variant(sku) == [ok |-> TRUE, sku |-> sku]

BadVariant == [ok |-> FALSE, sku |-> ""]

Image(src, ext) == [src |-> src, ext |-> ext]

Product(handle, id, variants, images) ==
    [handle |-> handle, id |-> id, variants |-> variants, images |-> images]

BookA == Product("a", "1", <<Variant("111")>>, <<Image("u1", "jpg")>>)

BookB == Product("b", "2", <<Variant("111")>>, <<Image("u2", "jpg")>>)

BookC ==
    Product("c", "3", <<>>,
            <<Image("", "jpg"), Image("u3", "jpg"), Image("u3b", "png")>>)

NoHandle == Product("", "4", <<Variant("")>>, <<Image("u4", "jpg")>>)

Malformed == Product("m", "5", <<BadVariant>>, <<Image("u5", "jpg")>>)

PlainP == Product("p", "6", <<Variant("666")>>, <<>>)

PlainQ == Product("q", "7", <<Variant("777")>>, <<>>)

(* The configurations explored: config.FETCH_HTML_METADATA,                *)
(* config.DOWNLOAD_IMAGES, config.TEST_LIMIT (0 stands for None).          *)
Config(meta, images, limit) ==
    [fetch_html_metadata |-> meta, download_images |-> images, test_limit |-> limit]

Full == Config(TRUE, TRUE, 0)

Bare == Config(FALSE, FALSE, 0)

(* A catalog that never ends within the page limit.                        *)
LongCatalog == [n \in 1..(max_pages + 1) |-> <<NoHandle>>]

(* The runs explored.  A scenario is a catalog (the sequence of listing    *)
(* pages; every page after the last one is served empty), a configuration  *)
(* and how often the environment may answer 429 and may fail otherwise.    *)
Scenario(cat, conf, n429, nerr) ==
    [catalog |-> cat, cfg |-> conf, n429 |-> n429, nerr |-> nerr]

Scenarios ==
    { Scenario(<<>>, Full, MAX_RETRIES + 1, 1),
      Scenario(<< <<PlainP, PlainQ>> >>, Full, Max429, 0),
      Scenario(<< <<PlainP>>, <<PlainQ>> >>, Full, 0, MAX_RETRIES + 2),
      Scenario(<< <<BookA, BookB>> >>, Full, 1, MaxErr),
      Scenario(<< <<BookA>>, <<PlainP, BookB>> >>, Full, 0, MaxErr),
      Scenario(<< <<BookC>>, <<>>, <<BookA>> >>, Full, 1, 1),
      Scenario(<< <<NoHandle, Malformed>> >>, Full, 1, MaxErr),
      Scenario(<< <<PlainP, PlainQ>> >>, Bare, 0, 1),
      Scenario(<< <<BookA, PlainP>>, <<BookB>> >>, Config(FALSE, TRUE, 1), 1, 1),
      Scenario(LongCatalog, Config(FALSE, TRUE, 0), 0, 1),
      Scenario(<< <<PlainP>>, <<PlainQ, BookA>>, <<BookB>> >>,
               Config(FALSE, FALSE, 2), 0, 0),
      Scenario(<< <<PlainP>>, <<PlainQ>> >>, Config(FALSE, FALSE, 3), 0, 0) }

RECURSIVE Flatten(_)
Flatten(pages) ==
    IF pages = <<>> THEN <<>> ELSE Head(pages) \o Flatten(Tail(pages))

(* The page the server answers for ?page=n.                                *)
ServedPage(cat, n) == IF n <= Len(cat) THEN cat[n] ELSE <<>>


(* Processing one image: lines 449-474 of download_book_images.            *)
Isbn(prod) ==
    IF prod.variants # <<>> /\ prod.variants[1].sku # ""
    THEN prod.variants[1].sku
    ELSE prod.id

ImgPath(prod, k) ==
    [base |-> Isbn(prod), idx |-> k - 1, ext |-> prod.images[k].ext]

(* variants[0].get('sku', '') raises when the first variant is no object.  *)
VariantsRaise(prod) == prod.variants # <<>> /\ ~prod.variants[1].ok

AllProducts(cat) == {Flatten(cat)[i] : i \in 1..Len(Flatten(cat))}

AllPaths(cat) ==
    UNION {{ImgPath(p, k) : k \in 1..Len(p.images)} : p \in AllProducts(cat)}

(* The handles of the catalog; handle h names the file BOOKS_DIR/{h}.json  *)
(* ("" when the handle is missing).                                        *)
AllHandles(cat) == {p.handle : p \in AllProducts(cat)}

----------------------------------------------------------------------------
VARIABLES
    catalog,            \* what the server serves (input of the run)
    cfg,                \* the configuration of the run (input of the run)
    budget,             \* how often the environment may fail (input of the run)
    task,               \* task id -> [pc, attempt, idx, hdr, wait, wrote]:
                        \* where each coroutine is
    page,               \* fetch_all_products: page
    all_products,       \* fetch_all_products: all_products; run: products
    sem,                \* self.semaphore._value: the free slots
    rate_limit_delay,   \* self.rate_limit_delay
    rate_limit_hits,    \* self.rate_limit_hits
    stats,              \* self.stats
    bookFile,           \* BOOKS_DIR/{handle}.json: "absent", "partial", "complete"
    imageFile,          \* IMAGES_DIR/{filename}: "absent", "partial", "complete"
    metaFile,           \* METADATA_FILE: its state and the statistics written
    faults,             \* what the environment has done so far (bounded)
    obs                 \* history of the run, read by the properties only:
                        \*   pageRequests  the page numbers requested, in order
                        \*   pageResults   the pages whose fetch has ended
                        \*   pageFailed    a page fetch has failed
                        \*   caught        the failures caught by a handler
                        \*   saved         the tasks whose JSON write completed
                        \*   throttleRaised  fetch calls that raised at line 145/195
                        \*   sent          requests issued by the task's current
                        \*                 fetch_json/fetch_html/download_image call
                        \*   throttled     429 responses to the task's current
                        \*                 fetch_json/fetch_html call
                        \*   imgReqs       requests issued, per image path
                        \*   writers       the tasks that opened the image path
                        \*                 for writing
                        \*   imgCalls      download_image calls, per image path
                        \*   imgOverlap    two calls for the path overlapped

vars == <<catalog, cfg, budget, task, page, all_products, sem, rate_limit_delay,
          rate_limit_hits, stats, bookFile, imageFile, metaFile, faults, obs>>

Main == 0

TaskIds == DOMAIN task

ProductTasks == TaskIds \ {Main}

Prod(t) == all_products[t]

(* The Retry-After header of a 429 response: missing, a number of seconds  *)
(* ("3"), or an HTTP-date ("Wed, 21 Oct 2026 07:28:00 GMT"), the two forms *)
(* the header has.                                                         *)
NoRetryAfter == [present |-> FALSE, numeric |-> FALSE, seconds |-> 0]

RetryAfterSeconds(n) == [present |-> TRUE, numeric |-> TRUE, seconds |-> n]

RetryAfterDate == [present |-> TRUE, numeric |-> FALSE, seconds |-> 0]

RetryAfterHeaders ==
    {NoRetryAfter, RetryAfterSeconds(RetryAfterSecs), RetryAfterDate}

(* Where a task is: its position, the loop variable attempt, the image     *)
(* index, and while it sleeps after a 429 or a failure: the Retry-After    *)
(* header it received and the duration of the sleep; wrote: the current    *)
(* attempt has changed rate_limit_hits or rate_limit_delay.                *)
At(pc, attempt, idx) ==
    [pc |-> pc, attempt |-> attempt, idx |-> idx,
     hdr |-> NoRetryAfter, wait |-> <<0, 1>>, wrote |-> FALSE]

FetchPcs == {"acquire", "delay", "request", "throttle_wait", "body", "backoff"}

ImagePcs == {"img_acquire", "img_request", "img_open", "img_write",
             "img_backoff"}

(* Who holds a slot of the semaphore: inside "async with self.semaphore".  *)
Holders ==
    {t \in TaskIds : task[t].pc \in {"delay", "request", "throttle_wait", "body",
                                     "img_request", "img_open", "img_write"}}

(* Whose HTTP request is in flight: inside "async with self.session.get".  *)
InFlight ==
    {t \in TaskIds : task[t].pc \in {"request", "body", "img_request"}}

(* The tasks inside download_image for path p.                             *)
ActiveOn(p) ==
    {t \in ProductTasks : task[t].pc \in ImagePcs /\ ImgPath(Prod(t), task[t].idx) = p}

InitStats ==
    [books_fetched |-> 0, images_downloaded |-> 0, errors |-> 0,
     rate_limit_429 |-> 0, start_time |-> FALSE, end_time |-> FALSE]

(* __init__ (lines 49-61), then run up to its first suspension: start_time *)
(* is set, fetch_all_products asks for page 1 and fetch_json reaches the   *)
(* semaphore with attempt 0.                                               *)
InitFrom(scenarios) ==
    /\ \E s \in scenarios :
          /\ catalog = s.catalog
          /\ cfg = s.cfg
          /\ budget = [n429 |-> s.n429, nerr |-> s.nerr]
    /\ task = [t \in 0..Len(Flatten(catalog)) |->
                 IF t = Main THEN At("acquire", 0, 0) ELSE At("idle", 0, 0)]
    /\ page = 1
    /\ all_products = <<>>
    /\ sem = SEMAPHORE_LIMIT
    /\ rate_limit_delay = HTML_REQUEST_DELAY
    /\ rate_limit_hits = 0
    /\ stats = [InitStats EXCEPT !.start_time = TRUE]
    /\ bookFile = [h \in AllHandles(catalog) |-> "absent"]
    /\ imageFile = [p \in AllPaths(catalog) |-> "absent"]
    /\ metaFile = [state |-> "absent", written |-> InitStats]
    /\ faults = [n429 |-> 0, nerr |-> 0, i429 |-> 0]
    /\ obs = [pageRequests |-> <<>>,
              pageResults  |-> <<>>,
              pageFailed   |-> FALSE,
              caught       |-> 0,
              saved        |-> {},
              throttleRaised |-> 0,
              sent         |-> [t \in 0..Len(Flatten(catalog)) |-> 0],
              throttled    |-> [t \in 0..Len(Flatten(catalog)) |-> 0],
              imgReqs      |-> [p \in AllPaths(catalog) |-> 0],
              writers      |-> [p \in AllPaths(catalog) |-> {}],
              imgCalls     |-> [p \in AllPaths(catalog) |-> 0],
              imgOverlap   |-> [p \in AllPaths(catalog) |-> FALSE]]

Init == InitFrom(Scenarios)

----------------------------------------------------------------------------
(* AdaptiveDelayState: the two updates of fetch_json / fetch_html.         *)

(* Lines 112-113 (162-163): a 429 response.                                *)
ThrottledHits(hits) == hits + 1

(* Variants of the definitions that follow them, each with one plausible  *)
(* slip; a property that is about a definition fails with its variant.     *)
ThrottledDelayUncapped(delay) == RatMul(delay, <<2, 1>>)

ThrottledDelayFromFloor(delay) ==
    RatMin(RatMul(HTML_REQUEST_DELAY, <<2, 1>>), DELAY_CEILING)

ThrottledDelay(delay) == RatMin(RatMul(delay, <<2, 1>>), DELAY_CEILING)

(* Variant: a success clears the counter.                                 *)
SuccessHitsCleared(hits) == 0

(* Lines 130-133 (180-183): a response that passed raise_for_status.       *)
SuccessHits(hits) == IF hits > 0 THEN hits - 1 ELSE hits

SuccessDelayGrows(hits, delay) ==
    IF hits > 0 /\ hits - 1 = 0
    THEN RatMax(HTML_REQUEST_DELAY, RatMul(delay, <<5, 4>>))
    ELSE delay

SuccessDelay(hits, delay) ==
    IF hits > 0 /\ hits - 1 = 0
    THEN RatMax(HTML_REQUEST_DELAY, RatMul(delay, DECAY_FACTOR))
    ELSE delay

(* Variant: the back-off grows by RETRY_WAIT_MIN per attempt.              *)
BackoffWaitLinear(i) == <<RETRY_WAIT_MIN * (i + 1), 1>>

(* Line 139: wait_time = RETRY_WAIT_MIN * (2 ** attempt).                  *)
BackoffWait(i) == <<RETRY_WAIT_MIN * 2^i, 1>>

(* Variant: one attempt more than max_retries.                            *)
FetchAttemptsOneMore == MAX_RETRIES + 3

(* range(max_retries) of fetch_json / fetch_html.                          *)
FetchAttempts == MAX_RETRIES + 2

----------------------------------------------------------------------------
(* Variant: download_image without the existence check of lines 205-207.  *)
RECURSIVE ImgScanNoCheck(_, _, _)
ImgScanNoCheck(prod, k, files) ==
    IF k > Len(prod.images) THEN [next |-> 0, short |-> <<>>]
    ELSE IF prod.images[k].src = "" THEN ImgScanNoCheck(prod, k + 1, files)
    ELSE [next |-> k, short |-> <<>>]

(* download_book_images, from image k on, up to the next suspension.       *)
(* download_image returns True at once for a file that exists (lines       *)
(* 205-207), so the loop goes on without suspending; it stops at the first *)
(* image that has a URL and no file, or at the end of the list.            *)
(* next: that image (0: none is left); short: the paths found present.     *)
RECURSIVE ImgScan(_, _, _)
ImgScan(prod, k, files) ==
    IF k > Len(prod.images) THEN [next |-> 0, short |-> <<>>]
    ELSE IF prod.images[k].src = "" THEN ImgScan(prod, k + 1, files)
    ELSE IF files[ImgPath(prod, k)] # "absent"
         THEN LET r == ImgScan(prod, k + 1, files)
              IN  [next |-> r.next, short |-> <<ImgPath(prod, k)>> \o r.short]
         ELSE [next |-> k, short |-> <<>>]

(* The history of the download_image calls a scan makes: one call per      *)
(* path found present and one for the image it stops at (when it is a new  *)
(* call, not the retry of one); a call overlaps when another task is       *)
(* inside download_image for the same path.                                *)
ObsCalls(ob, t, started) ==
    LET n(p) == Cardinality({i \in 1..Len(started) : started[i] = p})
    IN  [ob EXCEPT
           !.imgCalls = [p \in DOMAIN @ |-> @[p] + n(p)],
           !.imgOverlap = [p \in DOMAIN @ |->
                             @[p] \/ (n(p) > 0 /\ ActiveOn(p) \ {t} # {})]]

(* The loop of lines 457-482 from image k on: task t's new position, the   *)
(* statistics and the history.  retry: image k is the one task t was       *)
(* already downloading (a tenacity retry calls download_image again).      *)
ScanImages(t, k, retry, files, st, ob) ==
    LET r == ImgScan(Prod(t), k, files)
        fresh == IF r.next # 0 /\ ~(retry /\ r.next = k)
                 THEN <<ImgPath(Prod(t), r.next)>> ELSE <<>>
        counted == IF retry /\ r.next # k /\ r.short # <<>>
                   THEN Tail(r.short) ELSE r.short
    IN  /\ task' = [task EXCEPT ![t] =
                      IF r.next = 0 THEN At("done", 0, 0)
                      ELSE IF retry /\ r.next = k
                           THEN At("img_acquire", task[t].attempt + 1, k)
                           ELSE At("img_acquire", 1, r.next)]
        /\ stats' = [st EXCEPT !.images_downloaded = @ + Len(r.short)]
        /\ obs' = ObsCalls([ob EXCEPT !.sent[t] =
                                IF retry /\ r.next = k THEN @ ELSE 0],
                          t, counted \o fresh)

(* download_book_images up to its first suspension (lines 440-457).        *)
(* Line 451 is outside the loop's try: when it raises, process_product's   *)
(* handler (lines 504-507) counts the error and the task ends.             *)
EnterImages(t, files, st, ob) ==
    IF ~cfg.download_images \/ Prod(t).images = <<>>
    THEN /\ task' = [task EXCEPT ![t] = At("done", 0, 0)]
         /\ stats' = st
         /\ obs' = ob
    ELSE IF VariantsRaise(Prod(t))
    THEN /\ task' = [task EXCEPT ![t] = At("done", 0, 0)]
         /\ stats' = [st EXCEPT !.errors = @ + 1]
         /\ obs' = [ob EXCEPT !.caught = @ + 1]
    ELSE ScanImages(t, 1, FALSE, files, st, ob)

(* Variant: save_book_data without the check of lines 394-396.            *)
EnterSaveNoCheck(t, st, ob) ==
    /\ task' = [task EXCEPT ![t] = At("save_open", 0, 0)]
    /\ stats' = st
    /\ obs' = ob

(* save_book_data up to its first suspension (lines 392-427): a product    *)
(* without handle is skipped and process_product goes on to the images.    *)
EnterSave(t, st, ob) ==
    IF Prod(t).handle = ""
    THEN EnterImages(t, imageFile, st, ob)
    ELSE /\ task' = [task EXCEPT ![t] = At("save_open", 0, 0)]
         /\ stats' = st
         /\ obs' = ob

(* The history when task t's fetch_json / fetch_html call ends: a call     *)
(* that ends out of the wait after a 429 has left the loop and raised at   *)
(* line 145 (195).                                                         *)
FetchObs(t, ok, ob) ==
    [ob EXCEPT !.sent[t] = 0,
                !.throttled[t] = 0,
                !.throttleRaised =
                    @ + (IF ~ok /\ task[t].pc = "throttle_wait" THEN 1 ELSE 0)]

(* fetch_product_metadata (lines 337-344) once fetch_html has ended: a     *)
(* failure is logged and {} returned; the statistics are not touched.      *)
MetadataReturned(t, ok, st, ob) ==
    EnterSave(t, st,
              [FetchObs(t, ok, ob) EXCEPT !.caught = @ + (IF ok THEN 0 ELSE 1)])


----------------------------------------------------------------------------
(* run (lines 556-561): the batch products[i : i + batch_size] is handed   *)
(* to asyncio.gather, and run waits for it.                                *)
(* Variant: the slice of the batch is one product short.                  *)
BatchOfShort(i, n) == {t \in 1..n : i < t /\ t < i + batch_size}

BatchOf(i, n) == {t \in 1..n : i < t /\ t <= i + batch_size}

StartBatch(i, n) ==
    [t \in TaskIds |->
        IF t = Main THEN At("gather", 0, i)
        ELSE IF t \in BatchOf(i, n) THEN At("start", 0, 0)
        ELSE task[t]]

(* Variant: run goes on to the batches whatever fetch_all_products         *)
(* returned.                                                               *)
RunAfterFetchAllNoCheck(products, st, ob) ==
    /\ all_products' = products
    /\ stats' = st
    /\ obs' = ob
    /\ task' = StartBatch(0, Len(products))

(* run once fetch_all_products has returned (lines 546-561).               *)
RunAfterFetchAll(products, st, ob) ==
    /\ all_products' = products
    /\ stats' = st
    /\ obs' = ob
    /\ task' = IF products = <<>>
               THEN [task EXCEPT ![Main] = At("returned", 0, 0)]
               ELSE StartBatch(0, Len(products))

(* Variant: the empty page does not end the pagination.                   *)
PageIsLastNever(got) == FALSE

(* Line 373: "if not products" ends the pagination.                        *)
PageIsLast(got) == got = <<>>

(* Variant: the limit is tested on the list as it was before the page.    *)
LimitReachedBefore(all) ==
    cfg.test_limit # 0 /\ Len(all_products) >= cfg.test_limit

(* Line 380: "if limit and len(all_products) >= limit", after the page's   *)
(* items were appended.                                                    *)
LimitReached(all) == cfg.test_limit # 0 /\ Len(all) >= cfg.test_limit

(* Variant: the pagination goes on past the limit.                        *)
WithinPageLimitOff(n) == TRUE

(* Line 370: "while page <= max_pages".                                    *)
WithinPageLimit(n) == n <= max_pages

(* Variant: the failure of a page fetch is not counted.                   *)
PageReturnedUncounted(ok, st0, ob0) ==
    LET got == IF ok THEN ServedPage(catalog, page) ELSE <<>>
        st  == st0
        ob  == [FetchObs(Main, ok, ob0) EXCEPT !.pageResults = Append(@, page),
                                          !.pageFailed = @ \/ ~ok,
                                          !.caught = @ + (IF ok THEN 0 ELSE 1)]
        all == all_products \o got
    IN  IF PageIsLast(got)
        THEN page' = page /\ RunAfterFetchAll(all_products, st, ob)
        ELSE IF LimitReached(all)
        THEN page' = page /\ RunAfterFetchAll(SubSeq(all, 1, cfg.test_limit), st, ob)
        ELSE IF WithinPageLimit(page + 1)
        THEN /\ page' = page + 1
             /\ all_products' = all
             /\ stats' = st
             /\ obs' = ob
             /\ task' = [task EXCEPT ![Main] = At("acquire", 0, 0)]
        ELSE page' = page + 1 /\ RunAfterFetchAll(all, st, ob)

(* fetch_collection_page (lines 350-361) once fetch_json has ended, and    *)
(* the iteration of fetch_all_products that called it (lines 371-385).     *)
PageReturned(ok, st0, ob0) ==
    LET got == IF ok THEN ServedPage(catalog, page) ELSE <<>>
        st  == IF ok THEN st0 ELSE [st0 EXCEPT !.errors = @ + 1]
        ob  == [FetchObs(Main, ok, ob0) EXCEPT !.pageResults = Append(@, page),
                                          !.pageFailed = @ \/ ~ok,
                                          !.caught = @ + (IF ok THEN 0 ELSE 1)]
        all == all_products \o got
    IN  IF PageIsLast(got)
        THEN page' = page /\ RunAfterFetchAll(all_products, st, ob)
        ELSE IF LimitReached(all)
        THEN page' = page /\ RunAfterFetchAll(SubSeq(all, 1, cfg.test_limit), st, ob)
        ELSE IF WithinPageLimit(page + 1)
        THEN /\ page' = page + 1
             /\ all_products' = all
             /\ stats' = st
             /\ obs' = ob
             /\ task' = [task EXCEPT ![Main] = At("acquire", 0, 0)]
        ELSE page' = page + 1 /\ RunAfterFetchAll(all, st, ob)

(* What a fetch_json / fetch_html call returns to: fetch_json is called    *)
(* by fetch_collection_page only, fetch_html by fetch_product_metadata.    *)
FetchEnded(t, ok, st, ob) ==
    IF t = Main
    THEN PageReturned(ok, st, ob)
    ELSE /\ page' = page
         /\ all_products' = all_products
         /\ MetadataReturned(t, ok, st, ob)

----------------------------------------------------------------------------
(* fetch_json (lines 98-145) and fetch_html (lines 147-195): the two       *)
(* bodies are the same statement for statement; task 0 runs fetch_json,    *)
(* a product task fetch_html.  with_delay is True at every call site.      *)

(* Variant: the request goes ahead without a free slot.                   *)
AcquireNoWait(t) ==
    /\ task[t].pc = "acquire"
    /\ sem' = sem - 1
    /\ task' = [task EXCEPT ![t].pc = "delay"]
    /\ UNCHANGED <<catalog, cfg, budget, page, all_products, rate_limit_delay,
                   rate_limit_hits, stats, bookFile, imageFile, metaFile,
                   faults, obs>>

(* "async with self.semaphore" (line 104): a slot is taken when one is     *)
(* free, at once or after waiting.                                         *)
Acquire(t) ==
    /\ task[t].pc = "acquire"
    /\ sem > 0
    /\ sem' = sem - 1
    /\ task' = [task EXCEPT ![t].pc = "delay"]
    /\ UNCHANGED <<catalog, cfg, budget, page, all_products, rate_limit_delay,
                   rate_limit_hits, stats, bookFile, imageFile, metaFile,
                   faults, obs>>

(* Variant: the URL asks for the page after the current one.              *)
RequestedPageAhead == page + 1

(* Line 348: the page the URL of fetch_collection_page asks for.           *)
RequestedPage == page

(* The sleep of line 106 is over: session.get issues the request.          *)
SendRequest(t) ==
    /\ task[t].pc = "delay"
    /\ task' = [task EXCEPT ![t].pc = "request"]
    /\ obs' = IF t = Main
              THEN [obs EXCEPT !.pageRequests = Append(@, RequestedPage),
                               !.sent[t] = @ + 1]
              ELSE [obs EXCEPT !.sent[t] = @ + 1]
    /\ UNCHANGED <<catalog, cfg, budget, page, all_products, sem, rate_limit_delay,
                   rate_limit_hits, stats, bookFile, imageFile, metaFile,
                   faults>>

(* Line 118: wait_time = float(retry_after) if retry_after else            *)
(* self.rate_limit_delay * (attempt + 1), with the delay line 113 has just *)
(* raised.  Asked only of a header float() accepts.                        *)
ThrottleWait(h, delay, attempt) ==
    IF h.present THEN <<h.seconds, 1>> ELSE RatMul(delay, <<attempt + 1, 1>>)

(* float(retry_after) raises ValueError on a header that is not a number.  *)
FloatRaises(h) == h.present /\ ~h.numeric

(* Variant: the counter is written from the call's own count of its        *)
(* throttled attempts, which loses the updates of the other calls.         *)
Respond429Stale(t) ==
    /\ task[t].pc = "request"
    /\ faults.n429 < budget.n429
    /\ faults' = [faults EXCEPT !.n429 = @ + 1]
    /\ rate_limit_hits' = ThrottledHits(rate_limit_hits)
    /\ rate_limit_delay' = ThrottledDelay(rate_limit_delay)
    /\ \E h \in RetryAfterHeaders :
          LET st == [stats EXCEPT !.rate_limit_429 = task[t].attempt + 1]
              ob == [obs EXCEPT !.throttled[t] = @ + 1]
          IN  IF FloatRaises(h)
              THEN /\ sem' = sem + 1
                   /\ FetchEnded(t, FALSE, st, ob)
              ELSE /\ task' = [task EXCEPT
                                 ![t].pc = "throttle_wait",
                                 ![t].hdr = h,
                                 ![t].wait = ThrottleWait(h, rate_limit_delay',
                                                          task[t].attempt)]
                   /\ stats' = st
                   /\ obs' = ob
                   /\ UNCHANGED <<page, all_products, sem>>
    /\ UNCHANGED <<catalog, cfg, budget, bookFile, imageFile, metaFile>>

(* Variant: the slot is given back before the wait after a 429.          *)
Respond429FreesSlot(t) ==
    /\ task[t].pc = "request"
    /\ faults.n429 < budget.n429
    /\ faults' = [faults EXCEPT !.n429 = @ + 1]
    /\ rate_limit_hits' = ThrottledHits(rate_limit_hits)
    /\ rate_limit_delay' = ThrottledDelay(rate_limit_delay)
    /\ \E h \in RetryAfterHeaders :
          LET st == [stats EXCEPT !.rate_limit_429 = @ + 1]
              ob == [obs EXCEPT !.throttled[t] = @ + 1]
          IN  IF FloatRaises(h)
              THEN /\ sem' = sem + 1
                   /\ FetchEnded(t, FALSE, st, ob)
              ELSE /\ task' = [task EXCEPT
                                 ![t].pc = "throttle_wait",
                                 ![t].hdr = h,
                                 ![t].wait = ThrottleWait(h, rate_limit_delay',
                                                          task[t].attempt)]
                   /\ stats' = st
                   /\ obs' = ob
                   /\ sem' = sem + 1
                   /\ UNCHANGED <<page, all_products>>
    /\ UNCHANGED <<catalog, cfg, budget, bookFile, imageFile, metaFile>>

(* Lines 110-124: the response is a 429; the task sleeps wait_time inside  *)
(* the "async with", holding its slot.  When float(retry_after) raises at  *)
(* line 118, the ValueError is none of the exceptions line 137 catches: it *)
(* leaves the "async with" (the slot is released) and the call, and the    *)
(* caller's "except Exception" takes it as the call's failure.             *)
Respond429(t) ==
    /\ task[t].pc = "request"
    /\ faults.n429 < budget.n429
    /\ faults' = [faults EXCEPT !.n429 = @ + 1]
    /\ rate_limit_hits' = ThrottledHits(rate_limit_hits)
    /\ rate_limit_delay' = ThrottledDelay(rate_limit_delay)
    /\ \E h \in RetryAfterHeaders :
          LET st == [stats EXCEPT !.rate_limit_429 = @ + 1]
              ob == [obs EXCEPT !.throttled[t] = @ + 1]
          IN  IF FloatRaises(h)
              THEN /\ sem' = sem + 1
                   /\ FetchEnded(t, FALSE, st, ob)
              ELSE /\ task' = [task EXCEPT
                                 ![t].pc = "throttle_wait",
                                 ![t].hdr = h,
                                 ![t].wait = ThrottleWait(h, rate_limit_delay',
                                                          task[t].attempt)]
                   /\ stats' = st
                   /\ obs' = ob
                   /\ UNCHANGED <<page, all_products, sem>>
    /\ UNCHANGED <<catalog, cfg, budget, bookFile, imageFile, metaFile>>

(* Variant: the attempt after a 429 starts without giving the slot back.  *)
ThrottleWakeKeepsSlot(t) ==
    /\ task[t].pc = "throttle_wait"
    /\ sem' = sem
    /\ IF task[t].attempt + 1 < FetchAttempts
       THEN /\ task' = [task EXCEPT ![t] = At("acquire", task[t].attempt + 1, 0)]
            /\ UNCHANGED <<page, all_products, stats, obs>>
       ELSE FetchEnded(t, FALSE, stats, obs)
    /\ UNCHANGED <<catalog, cfg, budget, rate_limit_delay, rate_limit_hits, bookFile,
                   imageFile, metaFile, faults>>

(* Line 125: continue leaves the "async with" (the slot is released) and   *)
(* starts the next attempt; after the last attempt the loop ends and line  *)
(* 145 raises ClientError.                                                 *)
ThrottleWake(t) ==
    /\ task[t].pc = "throttle_wait"
    /\ sem' = sem + 1
    /\ IF task[t].attempt + 1 < FetchAttempts
       THEN /\ task' = [task EXCEPT ![t] = At("acquire", task[t].attempt + 1, 0)]
            /\ UNCHANGED <<page, all_products, stats, obs>>
       ELSE FetchEnded(t, FALSE, stats, obs)
    /\ UNCHANGED <<catalog, cfg, budget, rate_limit_delay, rate_limit_hits, bookFile,
                   imageFile, metaFile, faults>>

(* Lines 127-135: the status passes raise_for_status; the delay state is   *)
(* updated and the body is awaited (response.json(), response.text()).     *)
RespondOk(t) ==
    /\ task[t].pc = "request"
    /\ rate_limit_hits' = SuccessHits(rate_limit_hits)
    /\ rate_limit_delay' = SuccessDelay(rate_limit_hits, rate_limit_delay)
    /\ task' = [task EXCEPT ![t].pc = "body",
                            ![t].wrote = \/ rate_limit_hits' # rate_limit_hits
                                         \/ rate_limit_delay' # rate_limit_delay]
    /\ UNCHANGED <<catalog, cfg, budget, page, all_products, sem, stats, bookFile,
                   imageFile, metaFile, faults, obs>>

(* Line 135 (185): the body has arrived; the call returns it.              *)
BodyOk(t) ==
    /\ task[t].pc = "body"
    /\ sem' = sem + 1
    /\ FetchEnded(t, TRUE, stats, obs)
    /\ UNCHANGED <<catalog, cfg, budget, rate_limit_delay, rate_limit_hits, bookFile,
                   imageFile, metaFile, faults>>

(* Lines 137-143: the request or the reading of the body raises            *)
(* ClientError or TimeoutError (an error status through raise_for_status,  *)
(* a connection error, the total timeout).  The slot is released; the task *)
(* backs off when attempts remain, else the error is raised to the caller. *)
AttemptFails(t) ==
    /\ task[t].pc \in {"request", "body"}
    /\ faults.nerr < budget.nerr
    /\ faults' = [faults EXCEPT !.nerr = @ + 1]
    /\ sem' = sem + 1
    /\ IF task[t].attempt < FetchAttempts - 1
       THEN /\ task' = [task EXCEPT ![t].pc = "backoff",
                                     ![t].wait = BackoffWait(task[t].attempt)]
            /\ UNCHANGED <<page, all_products, stats, obs>>
       ELSE FetchEnded(t, FALSE, stats, obs)
    /\ UNCHANGED <<catalog, cfg, budget, rate_limit_delay, rate_limit_hits, bookFile,
                   imageFile, metaFile>>

(* The sleep of line 141 is over: the next attempt.                        *)
BackoffWake(t) ==
    /\ task[t].pc = "backoff"
    /\ task' = [task EXCEPT ![t] = At("acquire", task[t].attempt + 1, 0)]
    /\ UNCHANGED <<catalog, cfg, budget, page, all_products, sem, rate_limit_delay,
                   rate_limit_hits, stats, bookFile, imageFile, metaFile,
                   faults, obs>>


----------------------------------------------------------------------------
(* process_product (lines 486-507).                                        *)

(* The task gather created runs to its first suspension (lines 489-494).   *)
ProcessStart(t) ==
    /\ task[t].pc = "start"
    /\ IF cfg.fetch_html_metadata /\ Prod(t).handle # ""
       THEN /\ task' = [task EXCEPT ![t] = At("acquire", 0, 0)]
            /\ UNCHANGED <<stats, obs>>
       ELSE EnterSave(t, stats, obs)
    /\ UNCHANGED <<catalog, cfg, budget, page, all_products, sem, rate_limit_delay,
                   rate_limit_hits, bookFile, imageFile, metaFile, faults>>

(* save_book_data, line 427: aiofiles.open(filepath, 'w') creates or       *)
(* truncates the file, or raises; the handler of lines 433-436 counts the  *)
(* error, and process_product goes on to the images.                       *)
SaveOpen(t) ==
    /\ task[t].pc = "save_open"
    /\ \/ /\ bookFile' = [bookFile EXCEPT ![Prod(t).handle] = "partial"]
          /\ task' = [task EXCEPT ![t].pc = "save_write"]
          /\ UNCHANGED <<stats, obs, faults>>
       \/ /\ faults.nerr < budget.nerr
          /\ faults' = [faults EXCEPT !.nerr = @ + 1]
          /\ bookFile' = bookFile
          /\ EnterImages(t, imageFile, [stats EXCEPT !.errors = @ + 1],
                         [obs EXCEPT !.caught = @ + 1])
    /\ UNCHANGED <<catalog, cfg, budget, page, all_products, sem, rate_limit_delay,
                   rate_limit_hits, imageFile, metaFile>>

(* Lines 428-431: the record is written and the file closed, then          *)
(* books_fetched is counted; or the write raises and leaves what it had    *)
(* written so far.                                                         *)
SaveWrite(t) ==
    /\ task[t].pc = "save_write"
    /\ \/ /\ bookFile' = [bookFile EXCEPT ![Prod(t).handle] = "complete"]
          /\ faults' = faults
          /\ EnterImages(t, imageFile, [stats EXCEPT !.books_fetched = @ + 1],
                         [obs EXCEPT !.saved = @ \cup {t}])
       \/ /\ faults.nerr < budget.nerr
          /\ faults' = [faults EXCEPT !.nerr = @ + 1]
          /\ bookFile' = bookFile
          /\ EnterImages(t, imageFile, [stats EXCEPT !.errors = @ + 1],
                         [obs EXCEPT !.caught = @ + 1])
    /\ UNCHANGED <<catalog, cfg, budget, page, all_products, sem, rate_limit_delay,
                   rate_limit_hits, imageFile, metaFile>>

----------------------------------------------------------------------------
(* download_image (lines 197-218) under tenacity's retry, as called by     *)
(* the loop of download_book_images (lines 457-482).                       *)

CurPath(t) == ImgPath(Prod(t), task[t].idx)

(* Variant: the failure of an image ends the loop over the images.        *)
ImageFailedAborts(t, files) ==
    /\ task' = [task EXCEPT ![t] = At("done", 0, 0)]
    /\ stats' = [stats EXCEPT !.errors = @ + 1]
    /\ obs' = [obs EXCEPT !.caught = @ + 1, !.sent[t] = 0]

(* Variant: the failure of an image leaves process_product.               *)
ImageFailedPropagates(t, files) ==
    /\ task' = [task EXCEPT ![t] = At("raised", 0, 0)]
    /\ stats' = stats
    /\ obs' = obs

(* Variant: the handler takes back a count instead of counting an error.  *)
ImageFailedRollsBack(t, files) ==
    ScanImages(t, task[t].idx + 1, FALSE, files,
               [stats EXCEPT !.images_downloaded = @ - 1],
               [obs EXCEPT !.caught = @ + 1])

(* The handler of lines 480-482, then the next image.                      *)
ImageFailed(t, files) ==
    ScanImages(t, task[t].idx + 1, FALSE, files,
               [stats EXCEPT !.errors = @ + 1], [obs EXCEPT !.caught = @ + 1])

(* Lines 209-211: the slot is taken and session.get issues the request.    *)
ImgAcquire(t) ==
    /\ task[t].pc = "img_acquire"
    /\ sem > 0
    /\ sem' = sem - 1
    /\ task' = [task EXCEPT ![t].pc = "img_request"]
    /\ obs' = [obs EXCEPT !.imgReqs[CurPath(t)] = @ + 1, !.sent[t] = @ + 1]
    /\ UNCHANGED <<catalog, cfg, budget, page, all_products, rate_limit_delay,
                   rate_limit_hits, stats, bookFile, imageFile, metaFile, faults>>

(* Lines 212-215: the status passes raise_for_status and the body has     *)
(* been read (no statement of the task separates the two awaits and both   *)
(* fail the same way); aiofiles.open(filepath, 'wb') is awaited.           *)
ImgRespondOk(t) ==
    /\ task[t].pc = "img_request"
    /\ task' = [task EXCEPT ![t].pc = "img_open"]
    /\ UNCHANGED <<catalog, cfg, budget, page, all_products, sem, rate_limit_delay,
                   rate_limit_hits, stats, bookFile, imageFile, metaFile,
                   faults, obs>>

(* Variant: every failed attempt is counted as an error.                  *)
ImgAttemptFailsCounted(t) ==
    /\ task[t].pc = "img_request"
    /\ faults.nerr < budget.nerr
    /\ \E status \in {429, 503} :
          faults' = [faults EXCEPT !.nerr = @ + 1,
                                   !.i429 = @ + (IF status = 429 THEN 1 ELSE 0)]
    /\ sem' = sem + 1
    /\ IF task[t].attempt < MAX_RETRIES
       THEN /\ task' = [task EXCEPT ![t].pc = "img_backoff"]
            /\ stats' = [stats EXCEPT !.errors = @ + 1]
            /\ obs' = obs
       ELSE ImageFailed(t, imageFile)
    /\ UNCHANGED <<catalog, cfg, budget, page, all_products, rate_limit_delay,
                   rate_limit_hits, bookFile, imageFile, metaFile>>

(* The request or the reading raises ClientError or TimeoutError: a        *)
(* connection error, the timeout, or through raise_for_status (line 212)   *)
(* an error status, of which 503 stands for all but 429.  download_image   *)
(* has no branch for a 429: it is an error status like the others.         *)
(* tenacity retries up to stop_after_attempt(MAX_RETRIES), then reraises   *)
(* into the handler of download_book_images.                               *)
ImgAttemptFails(t) ==
    /\ task[t].pc = "img_request"
    /\ faults.nerr < budget.nerr
    /\ \E status \in {429, 503} :
          faults' = [faults EXCEPT !.nerr = @ + 1,
                                   !.i429 = @ + (IF status = 429 THEN 1 ELSE 0)]
    /\ sem' = sem + 1
    /\ IF task[t].attempt < MAX_RETRIES
       THEN /\ task' = [task EXCEPT ![t].pc = "img_backoff"]
            /\ UNCHANGED <<stats, obs>>
       ELSE ImageFailed(t, imageFile)
    /\ UNCHANGED <<catalog, cfg, budget, page, all_products, rate_limit_delay,
                   rate_limit_hits, bookFile, imageFile, metaFile>>

(* tenacity's wait is over: download_image is called again, from its       *)
(* existence check (line 205).                                             *)
ImgBackoffWake(t) ==
    /\ task[t].pc = "img_backoff"
    /\ ScanImages(t, task[t].idx, TRUE, imageFile, stats, obs)
    /\ UNCHANGED <<catalog, cfg, budget, page, all_products, sem, rate_limit_delay,
                   rate_limit_hits, bookFile, imageFile, metaFile, faults>>

(* Line 215: the file is created or truncated, or open raises OSError,     *)
(* which tenacity does not retry.                                          *)
ImgOpen(t) ==
    /\ task[t].pc = "img_open"
    /\ \/ /\ imageFile' = [imageFile EXCEPT ![CurPath(t)] = "partial"]
          /\ task' = [task EXCEPT ![t].pc = "img_write"]
          /\ obs' = [obs EXCEPT !.writers[CurPath(t)] = @ \cup {t}]
          /\ UNCHANGED <<sem, stats, faults>>
       \/ /\ faults.nerr < budget.nerr
          /\ faults' = [faults EXCEPT !.nerr = @ + 1]
          /\ sem' = sem + 1
          /\ imageFile' = imageFile
          /\ ImageFailed(t, imageFile)
    /\ UNCHANGED <<catalog, cfg, budget, page, all_products, rate_limit_delay,
                   rate_limit_hits, bookFile, metaFile>>

(* Variant: a write that raises leaves download_image with the slot kept. *)
ImgWriteLeaks(t) ==
    /\ task[t].pc = "img_write"
    /\ \/ /\ imageFile' = [imageFile EXCEPT ![CurPath(t)] = "complete"]
          /\ faults' = faults
          /\ sem' = sem + 1
          /\ ScanImages(t, task[t].idx + 1, FALSE, imageFile',
                        [stats EXCEPT !.images_downloaded = @ + 1], obs)
       \/ /\ faults.nerr < budget.nerr
          /\ faults' = [faults EXCEPT !.nerr = @ + 1]
          /\ imageFile' = imageFile
          /\ sem' = sem
          /\ ImageFailed(t, imageFile)
    /\ UNCHANGED <<catalog, cfg, budget, page, all_products, rate_limit_delay,
                   rate_limit_hits, bookFile, metaFile>>

(* Lines 216-218 and 476-478: the bytes are written, the file closed, the  *)
(* slot released and True returned, which the caller counts; or the write  *)
(* raises and leaves what it had written.                                  *)
ImgWrite(t) ==
    /\ task[t].pc = "img_write"
    /\ sem' = sem + 1
    /\ \/ /\ imageFile' = [imageFile EXCEPT ![CurPath(t)] = "complete"]
          /\ faults' = faults
          /\ ScanImages(t, task[t].idx + 1, FALSE, imageFile',
                        [stats EXCEPT !.images_downloaded = @ + 1], obs)
       \/ /\ faults.nerr < budget.nerr
          /\ faults' = [faults EXCEPT !.nerr = @ + 1]
          /\ imageFile' = imageFile
          /\ ImageFailed(t, imageFile)
    /\ UNCHANGED <<catalog, cfg, budget, page, all_products, rate_limit_delay,
                   rate_limit_hits, bookFile, metaFile>>

----------------------------------------------------------------------------
(* run, after a batch (lines 561-569), and save_metadata (lines 509-535).  *)

(* save_metadata builds the summary before it opens the file: line 526     *)
(* raises on a product whose first variant is no object.                   *)
SummaryRaises == \E i \in 1..Len(all_products) : VariantsRaise(all_products[i])

(* Variant: the batch counts as over with its first task.                 *)
BatchFinishedEarly(batch) == \E t \in batch : task[t].pc = "done"

(* Line 561: the gather of the batch is over when every task has ended.   *)
BatchFinished(batch) == \A t \in batch : task[t].pc = "done"

(* gather returns when every task of the batch has ended, and raises as    *)
(* soon as one of them has raised; run then starts the next batch or calls *)
(* save_metadata; an exception leaves run through lines 583-585.           *)
GatherDone ==
    LET i == task[Main].idx
        n == Len(all_products)
        batch == BatchOf(i, n)
    IN  /\ task[Main].pc = "gather"
        /\ \/ BatchFinished(batch)
           \/ \E t \in batch : task[t].pc = "raised"
        /\ task' = IF \E t \in batch : task[t].pc = "raised"
                   THEN [task EXCEPT ![Main] = At("aborted", 0, i)]
                   ELSE IF i + batch_size < n
                   THEN StartBatch(i + batch_size, n)
                   ELSE IF SummaryRaises
                   THEN [task EXCEPT ![Main] = At("aborted", 0, i)]
                   ELSE [task EXCEPT ![Main] = At("stats_open", 0, i)]
        /\ UNCHANGED <<catalog, cfg, budget, page, all_products, sem, rate_limit_delay,
                       rate_limit_hits, stats, bookFile, imageFile, metaFile,
                       faults, obs>>

(* Line 532: aiofiles.open(METADATA_FILE, 'w'); an error is fatal.         *)
StatsOpen ==
    /\ task[Main].pc = "stats_open"
    /\ \/ /\ metaFile' = [metaFile EXCEPT !.state = "partial"]
          /\ task' = [task EXCEPT ![Main].pc = "stats_write"]
          /\ faults' = faults
       \/ /\ faults.nerr < budget.nerr
          /\ faults' = [faults EXCEPT !.nerr = @ + 1]
          /\ metaFile' = metaFile
          /\ task' = [task EXCEPT ![Main].pc = "aborted"]
    /\ UNCHANGED <<catalog, cfg, budget, page, all_products, sem, rate_limit_delay,
                   rate_limit_hits, stats, bookFile, imageFile, obs>>

(* Line 533 writes the record with self.stats as it is then; run sets      *)
(* end_time afterwards (line 569).                                         *)
StatsWrite ==
    /\ task[Main].pc = "stats_write"
    /\ \/ /\ metaFile' = [state |-> "complete", written |-> stats]
          /\ stats' = [stats EXCEPT !.end_time = TRUE]
          /\ task' = [task EXCEPT ![Main].pc = "done"]
          /\ faults' = faults
       \/ /\ faults.nerr < budget.nerr
          /\ faults' = [faults EXCEPT !.nerr = @ + 1]
          /\ metaFile' = metaFile
          /\ stats' = stats
          /\ task' = [task EXCEPT ![Main].pc = "aborted"]
    /\ UNCHANGED <<catalog, cfg, budget, page, all_products, sem, rate_limit_delay,
                   rate_limit_hits, bookFile, imageFile, obs>>

----------------------------------------------------------------------------
Next ==
    \/ \E t \in TaskIds :
          \/ Acquire(t)
          \/ SendRequest(t)
          \/ Respond429(t)
          \/ ThrottleWake(t)
          \/ RespondOk(t)
          \/ BodyOk(t)
          \/ AttemptFails(t)
          \/ BackoffWake(t)
    \/ \E t \in ProductTasks :
          \/ ProcessStart(t)
          \/ SaveOpen(t)
          \/ SaveWrite(t)
          \/ ImgAcquire(t)
          \/ ImgRespondOk(t)
          \/ ImgAttemptFails(t)
          \/ ImgBackoffWake(t)
          \/ ImgOpen(t)
          \/ ImgWrite(t)
    \/ GatherDone
    \/ StatsOpen
    \/ StatsWrite

Spec == Init /\ [][Next]_vars

----------------------------------------------------------------------------
(* The run under fair scheduling.  The event loop runs a task that is      *)
(* ready, and every sleep and every awaited response or file operation     *)
(* ends (a request without answer ends in the total timeout): a step that  *)
(* can be taken is taken.  The runs explored are two of the scenarios.     *)

FairScenarios ==
    { Scenario(<< <<BookA, BookB>> >>, Full, 1, MaxErr),
      Scenario(<< <<BookC>>, <<>>, <<BookA>> >>, Full, 1, 1) }

InitFair == InitFrom(FairScenarios)

SpecFair == InitFair /\ [][Next]_vars /\ WF_vars(Next)

----------------------------------------------------------------------------
(* The delay state under an endless stream of fetch_json / fetch_html      *)
(* responses: what lines 110-114 and 127-133 do to rate_limit_hits and     *)
(* rate_limit_delay, response after response, with the tasks and the files *)
(* left out.  The stream asks for pages 1 and 2 in turn.  At most Max429   *)
(* responses are 429, so from some point on none is; the fairness          *)
(* condition says that successful responses keep arriving.                 *)

InitRecovery ==
    /\ catalog = <<>>
    /\ cfg = Full
    /\ budget = [n429 |-> Max429, nerr |-> 0]
    /\ task = [t \in {Main} |-> At("request", 0, 0)]
    /\ page = 1
    /\ all_products = <<>>
    /\ sem = SEMAPHORE_LIMIT - 1
    /\ rate_limit_delay = HTML_REQUEST_DELAY
    /\ rate_limit_hits = 0
    /\ stats = [InitStats EXCEPT !.start_time = TRUE]
    /\ bookFile = <<>>
    /\ imageFile = <<>>
    /\ metaFile = [state |-> "absent", written |-> InitStats]
    /\ faults = [n429 |-> 0, nerr |-> 0, i429 |-> 0]
    /\ obs = <<>>

(* Lines 110-114: the response is a 429.                                   *)
StreamThrottled ==
    /\ faults.n429 < budget.n429
    /\ faults' = [faults EXCEPT !.n429 = @ + 1]
    /\ rate_limit_hits' = ThrottledHits(rate_limit_hits)
    /\ rate_limit_delay' = ThrottledDelay(rate_limit_delay)
    /\ stats' = [stats EXCEPT !.rate_limit_429 = @ + 1]
    /\ page' = 3 - page
    /\ UNCHANGED <<catalog, cfg, budget, task, all_products, sem, bookFile,
                   imageFile, metaFile, obs>>

(* Lines 127-133: the response passes raise_for_status.                    *)
StreamSucceeds ==
    /\ rate_limit_hits' = SuccessHits(rate_limit_hits)
    /\ rate_limit_delay' = SuccessDelay(rate_limit_hits, rate_limit_delay)
    /\ page' = 3 - page
    /\ UNCHANGED <<catalog, cfg, budget, task, all_products, sem, stats, bookFile,
                   imageFile, metaFile, faults, obs>>

NextRecovery == StreamThrottled \/ StreamSucceeds

SpecRecovery ==
    InitRecovery /\ [][NextRecovery]_vars /\ WF_vars(StreamSucceeds)

----------------------------------------------------------------------------
(* The file name of an image (lines 463-472 of download_book_images) as a  *)
(* function of the product, the index and the URL.  Text is a sequence of  *)
(* characters.  The input is the path urlparse yields, which holds no "?"  *)
(* (the query is split off by urlparse); it is drawn from the paths of at  *)
(* most MaxPathLen characters over PathChars.                              *)

MaxPathLen == 4

PathChars == {"/", ".", "j", "g"}

Texts(chars, n) == UNION {[1..k -> chars] : k \in 0..n}

(* The paths of URLs: empty, or starting with a slash.                     *)
UrlPaths == {p \in Texts(PathChars, MaxPathLen) : p = <<>> \/ p[1] = "/"}

(* The position of the last c in text s, 0 when there is none.             *)
LastIndexOf(s, c) ==
    LET at == {i \in 1..Len(s) : s[i] = c}
    IN  IF at = {} THEN 0 ELSE CHOOSE i \in at : \A j \in at : j <= i

(* The position of the first c in text s, Len(s) + 1 when there is none.   *)
FirstIndexOf(s, c) ==
    LET at == {i \in 1..Len(s) : s[i] = c}
    IN  IF at = {} THEN Len(s) + 1 ELSE CHOOSE i \in at : \A j \in at : i <= j

(* s.split(c)[-1] and s.split(c)[0].                                       *)
LastPart(s, c) == SubSeq(s, LastIndexOf(s, c) + 1, Len(s))

FirstPart(s, c) == SubSeq(s, 1, FirstIndexOf(s, c) - 1)

(* Lines 463-465: path_parts = parsed.path.split('.');                     *)
(* ext = path_parts[-1].split('?')[0] if len(path_parts) > 1 else 'jpg'.   *)
ImageExt(path) ==
    IF LastIndexOf(path, ".") > 0
    THEN FirstPart(LastPart(path, "."), "?")
    ELSE <<"j", "p", "g">>

(* Lines 468-471: f"{isbn}.{ext}" for idx 0, else f"{isbn}_{idx}.{ext}";   *)
(* isbn and idx stand as one character each.                               *)
ImageFilename(isbn, idx, ext) ==
    IF idx = 0 THEN <<isbn, ".">> \o ext ELSE <<isbn, "_", idx, ".">> \o ext

(* The products named: with a SKU, with an empty SKU, without variants.    *)
NamedProducts(path) ==
    { Product("a", "1", vs, <<Image(path, <<>>), Image(path, <<>>)>>) :
        vs \in {<<Variant("111")>>, <<Variant("")>>, <<>>} }

InitFilename ==
    /\ \E path \in UrlPaths :
          \E prod \in NamedProducts(path) :
              /\ catalog = << <<prod>> >>
              /\ all_products = <<prod>>
    /\ \E k \in 1..2 : task = [t \in {1} |-> At("img_name", 0, k)]
    /\ cfg = Config(FALSE, TRUE, 0)
    /\ budget = [n429 |-> 0, nerr |-> 0]
    /\ page = 1
    /\ sem = SEMAPHORE_LIMIT
    /\ rate_limit_delay = HTML_REQUEST_DELAY
    /\ rate_limit_hits = 0
    /\ stats = [InitStats EXCEPT !.start_time = TRUE]
    /\ bookFile = <<>>
    /\ imageFile = <<>>
    /\ metaFile = [state |-> "absent", written |-> InitStats]
    /\ faults = [n429 |-> 0, nerr |-> 0, i429 |-> 0]
    /\ obs = <<>>

(* Lines 459-472 for the image the task is at (enumerate counts from 0):   *)
(* the name is computed and download_image is about to be called.          *)
NameImage ==
    /\ task[1].pc = "img_name"
    /\ LET prod == all_products[1]
           k == task[1].idx
       IN  obs' = [filename |->
                     ImageFilename(Isbn(prod), k - 1,
                                   ImageExt(prod.images[k].src))]
    /\ task' = [task EXCEPT ![1].pc = "img_download"]
    /\ UNCHANGED <<catalog, cfg, budget, page, all_products, sem, rate_limit_delay,
                   rate_limit_hits, stats, bookFile, imageFile, metaFile, faults>>

NextFilename == NameImage

SpecFilename == InitFilename /\ [][NextFilename]_vars

----------------------------------------------------------------------------
(* The HTML metadata of one product: parse_html_metadata (lines 292-324)   *)
(* and the block save_book_data builds from it (lines 405-423).  The       *)
(* product page is the sequence of the dt and dd elements of its           *)
(* definition list, at most MaxElems of them; a dt holds a term, and a dd  *)
(* stands for its text by its position in the page.                        *)

MaxElems == 4

(* config.HTML_METADATA_FIELDS (config.py lines 39-49); Sivumaara stands   *)
(* for the field the source spells with a-umlauts.                         *)
HTML_METADATA_FIELDS ==
    {"Avainsanat", "Kirjastoluokka", "Aiheet", "Kustantaja", "Julkaisu",
     "Sidosasu", "Sivumaara", "Mitat", "Paino"}

(* metadata_mapping (lines 407-417).                                       *)
metadata_mapping ==
    [Avainsanat |-> "keywords", Kirjastoluokka |-> "library_classification",
     Aiheet |-> "topics", Kustantaja |-> "publisher_alt",
     Julkaisu |-> "publication_date", Sidosasu |-> "binding",
     Sivumaara |-> "page_count", Mitat |-> "dimensions", Paino |-> "weight"]

(* The terms the pages explored hold: three of the fields and two terms    *)
(* that are no fields, one of them the name of a key of the record.        *)
PageTerms == {"Avainsanat", "Mitat", "Paino", "Tuotekoodi", "title"}

Dt(term) == [tag |-> "dt", text |-> term]

Dd == [tag |-> "dd", text |-> ""]

HtmlPages ==
    UNION {[1..n -> {Dt(x) : x \in PageTerms} \cup {Dd}] : n \in 0..MaxElems}

(* dt.find_next_sibling('dd') (line 299): the position of the first dd     *)
(* after position i, 0 when there is none.                                 *)
NextDd(html, i) ==
    LET at == {j \in (i + 1)..Len(html) : html[j].tag = "dd"}
    IN  IF at = {} THEN 0 ELSE CHOOSE j \in at : \A k \in at : j <= k

(* Variant: every term with a dd is stored.                               *)
ParsedTermsAll(html) ==
    {i \in 1..Len(html) : html[i].tag = "dt" /\ NextDd(html, i) # 0}

(* Lines 298-305: the dt elements that have a dd and whose term is one of  *)
(* the fields.                                                             *)
ParsedTerms(html) ==
    {i \in 1..Len(html) :
        /\ html[i].tag = "dt"
        /\ NextDd(html, i) # 0
        /\ html[i].text \in HTML_METADATA_FIELDS}

(* Lines 296-322: the dict parse_html_metadata returns; a term that occurs *)
(* again overwrites the value (line 319).                                  *)
parse_html_metadata(html) ==
    LET found == ParsedTerms(html)
        last(k) == CHOOSE i \in found :
                      /\ html[i].text = k
                      /\ \A j \in found : html[j].text = k => j <= i
    IN  [k \in {html[i].text : i \in found} |-> NextDd(html, last(k))]

(* Lines 399-423: the keys of the record save_book_data writes (those of   *)
(* the listing entry, _metadata and, for a non-empty html_metadata,        *)
(* _html_metadata) and the _html_metadata block.                           *)
BookRecord(html_metadata) ==
    LET listed == {"handle", "id", "title", "variants", "images"}
        block == [e \in {metadata_mapping[k] :
                           k \in DOMAIN metadata_mapping \cap DOMAIN html_metadata}
                    |-> html_metadata[CHOOSE k \in DOMAIN html_metadata :
                                         /\ k \in DOMAIN metadata_mapping
                                         /\ metadata_mapping[k] = e]]
    IN  IF html_metadata # <<>>
        THEN [keys |-> listed \cup {"_metadata", "_html_metadata"},
              html |-> block]
        ELSE [keys |-> listed \cup {"_metadata"}, html |-> <<>>]

(* process_product up to the call of fetch_html (lines 489-494), for one   *)
(* product with a handle; the page is what the storefront serves for it.   *)
InitMetadata ==
    /\ \E html \in HtmlPages : catalog = <<html>>
    /\ \E enabled \in BOOLEAN : cfg = Config(enabled, FALSE, 0)
    /\ task = [t \in {1} |-> At("html", 0, 0)]
    /\ all_products = <<PlainP>>
    /\ budget = [n429 |-> 0, nerr |-> 1]
    /\ page = 1
    /\ sem = SEMAPHORE_LIMIT
    /\ rate_limit_delay = HTML_REQUEST_DELAY
    /\ rate_limit_hits = 0
    /\ stats = [InitStats EXCEPT !.start_time = TRUE]
    /\ bookFile = <<>>
    /\ imageFile = <<>>
    /\ metaFile = [state |-> "absent", written |-> InitStats]
    /\ faults = [n429 |-> 0, nerr |-> 0, i429 |-> 0]
    /\ obs = [html_metadata |-> <<>>, record |-> <<>>]

(* Lines 492-494 and 337-341: with FETCH_HTML_METADATA the page is fetched *)
(* and parsed; without it html_metadata stays {}.                          *)
ParsePage ==
    /\ task[1].pc = "html"
    /\ obs' = [obs EXCEPT !.html_metadata =
                 IF cfg.fetch_html_metadata
                 THEN parse_html_metadata(catalog[1]) ELSE <<>>]
    /\ task' = [task EXCEPT ![1].pc = "save"]
    /\ UNCHANGED <<catalog, cfg, budget, page, all_products, sem, rate_limit_delay,
                   rate_limit_hits, stats, bookFile, imageFile, metaFile, faults>>

(* Lines 342-344: fetch_html raised; fetch_product_metadata returns {}.    *)
PageFetchRaises ==
    /\ task[1].pc = "html"
    /\ cfg.fetch_html_metadata
    /\ faults.nerr < budget.nerr
    /\ faults' = [faults EXCEPT !.nerr = @ + 1]
    /\ task' = [task EXCEPT ![1].pc = "save"]
    /\ UNCHANGED <<catalog, cfg, budget, page, all_products, sem, rate_limit_delay,
                   rate_limit_hits, stats, bookFile, imageFile, metaFile, obs>>

(* Lines 399-430: save_book_data builds the record and writes it.          *)
SaveRecord ==
    /\ task[1].pc = "save"
    /\ obs' = [obs EXCEPT !.record = BookRecord(obs.html_metadata)]
    /\ task' = [task EXCEPT ![1].pc = "saved"]
    /\ UNCHANGED <<catalog, cfg, budget, page, all_products, sem, rate_limit_delay,
                   rate_limit_hits, stats, bookFile, imageFile, metaFile, faults>>

NextMetadata == ParsePage \/ PageFetchRaises \/ SaveRecord

SpecMetadata == InitMetadata /\ [][NextMetadata]_vars

----------------------------------------------------------------------------
(* The value of the field Mitat: parse_dimensions_mm (lines 277-290) and   *)
(* its use (lines 316-318).  The text of the dd is drawn from the texts of *)
(* at most MaxTextLen characters over DimChars: two digits, the decimal    *)
(* comma and period, and the multiplication sign (written "X" here).       *)

MaxTextLen == 5

DimChars == {"2", "5", ",", ".", "X"}

IsDigit(c) == c \in {"2", "5"}

DigitVal(c) == IF c = "2" THEN 2 ELSE 5

(* The end of the run of digits that starts at position i.                 *)
RECURSIVE DigitsEnd(_, _)
DigitsEnd(s, i) ==
    IF i < Len(s) /\ IsDigit(s[i + 1]) THEN DigitsEnd(s, i + 1) ELSE i

(* Line 280: re.findall(r"(\d+(?:[\.,]\d+)?)", text) from position i on:   *)
(* the matches from left to right, none overlapping another.               *)
RECURSIVE FindNums(_, _)
FindNums(s, i) ==
    IF i > Len(s) THEN <<>>
    ELSE IF ~IsDigit(s[i]) THEN FindNums(s, i + 1)
    ELSE LET e == DigitsEnd(s, i)
             frac == /\ e + 2 <= Len(s)
                     /\ s[e + 1] \in {",", "."}
                     /\ IsDigit(s[e + 2])
             f == IF frac THEN DigitsEnd(s, e + 2) ELSE e
         IN  <<SubSeq(s, i, f)>> \o FindNums(s, f + 1)

(* The number a run of digits writes.                                      *)
RECURSIVE DigitsValue(_)
DigitsValue(d) ==
    IF d = <<>> THEN 0
    ELSE 10 * DigitsValue(SubSeq(d, 1, Len(d) - 1)) + DigitVal(d[Len(d)])

(* A match n as the fraction num / 10^places that float(n.replace(',',     *)
(* '.')) reads (line 285 and 287).                                         *)
Decimal(n) ==
    LET e == DigitsEnd(n, 1)
        fr == SubSeq(n, e + 2, Len(n))
    IN  [num |-> DigitsValue(SubSeq(n, 1, e) \o fr), places |-> Len(fr)]

(* Line 287: int(round(float(n))); round takes a tie to the even integer.  *)
Rounded(n) ==
    LET d == Decimal(n)
        unit == 10^(d.places)
        low == d.num \div unit
        rest == d.num % unit
    IN  IF 2 * rest < unit THEN low
        ELSE IF 2 * rest > unit THEN low + 1
        ELSE IF low % 2 = 0 THEN low ELSE low + 1

(* Line 279: the multiplication sign becomes x.                            *)
ReplaceTimes(s) == [i \in 1..Len(s) |-> IF s[i] = "X" THEN "x" ELSE s[i]]

(* Lines 277-290: None for fewer than two matches, else the rounded values *)
(* of nums[:3].                                                            *)
parse_dimensions_mm(text) ==
    LET nums == FindNums(ReplaceTimes(text), 1)
        n == IF Len(nums) < 3 THEN Len(nums) ELSE 3
    IN  IF Len(nums) < 2 THEN [none |-> TRUE, values |-> <<>>]
        ELSE [none |-> FALSE, values |-> [i \in 1..n |-> Rounded(nums[i])]]

InitDimensions ==
    /\ \E text \in Texts(DimChars, MaxTextLen) : catalog = <<text>>
    /\ cfg = Config(TRUE, FALSE, 0)
    /\ task = [t \in {1} |-> At("mitat", 0, 0)]
    /\ all_products = <<PlainP>>
    /\ budget = [n429 |-> 0, nerr |-> 0]
    /\ page = 1
    /\ sem = SEMAPHORE_LIMIT
    /\ rate_limit_delay = HTML_REQUEST_DELAY
    /\ rate_limit_hits = 0
    /\ stats = [InitStats EXCEPT !.start_time = TRUE]
    /\ bookFile = <<>>
    /\ imageFile = <<>>
    /\ metaFile = [state |-> "absent", written |-> InitStats]
    /\ faults = [n429 |-> 0, nerr |-> 0, i429 |-> 0]
    /\ obs = <<>>

(* Lines 316-318: dims = parse_dimensions_mm(str(value));                  *)
(* value = dims if dims is not None else value.                            *)
ParseDimensions ==
    /\ task[1].pc = "mitat"
    /\ LET dims == parse_dimensions_mm(catalog[1])
       IN  obs' = IF dims.none
                  THEN [list |-> FALSE, value |-> catalog[1]]
                  ELSE [list |-> TRUE, value |-> dims.values]
    /\ task' = [task EXCEPT ![1].pc = "stored"]
    /\ UNCHANGED <<catalog, cfg, budget, page, all_products, sem, rate_limit_delay,
                   rate_limit_hits, stats, bookFile, imageFile, metaFile, faults>>

NextDimensions == ParseDimensions

SpecDimensions == InitDimensions /\ [][NextDimensions]_vars

----------------------------------------------------------------------------
TypeOK ==
    /\ sem \in 0..SEMAPHORE_LIMIT
    /\ \A t \in TaskIds : task[t].pc \in
          FetchPcs \cup ImagePcs \cup
          {"idle", "start", "save_open", "save_write", "done", "raised",
           "gather", "stats_open", "stats_write", "returned", "aborted"}


----------------------------------------------------------------------------
(* Properties.                                                             *)

(* C1: at every state the number of HTTP requests in flight (fetch_json,   *)
(* fetch_html and download_image together) is at most SEMAPHORE_LIMIT.     *)
C1_InFlightBounded == Cardinality(InFlight) <= SEMAPHORE_LIMIT

(* The limit is reached while another task waits for a slot.               *)
C1_Witness ==
    /\ Cardinality(InFlight) = SEMAPHORE_LIMIT
    /\ \E t \in TaskIds : task[t].pc \in {"acquire", "img_acquire"}

(* C2: the base delay stays between the floor HTML_REQUEST_DELAY and the   *)
(* ceiling 10.0, whatever 429 and success responses have been received.    *)
C2_DelayInBounds ==
    /\ HTML_REQUEST_DELAY[1] * rate_limit_delay[2]
          <= rate_limit_delay[1] * HTML_REQUEST_DELAY[2]
    /\ rate_limit_delay[1] <= 10 * rate_limit_delay[2]

(* The ceiling is reached while a task sits out a throttle wait.           *)
C2_Witness ==
    /\ rate_limit_delay = <<10, 1>>
    /\ \E t \in TaskIds : task[t].pc = "throttle_wait"

(* C3: each 429 response sets the delay to min(previous delay * 2, 10.0)   *)
(* and adds exactly 1 to rate_limit_hits and to stats['rate_limit_429'];   *)
(* the delay does not exceed the ceiling.                                  *)
C3_ThrottleStep ==
    [][faults'.n429 # faults.n429 =>
          /\ faults'.n429 = faults.n429 + 1
          /\ rate_limit_hits' = rate_limit_hits + 1
          /\ stats'.rate_limit_429 = stats.rate_limit_429 + 1
          /\ IF 2 * rate_limit_delay[1] <= 10 * rate_limit_delay[2]
             THEN rate_limit_delay'[1] * rate_limit_delay[2]
                     = 2 * rate_limit_delay[1] * rate_limit_delay'[2]
             ELSE rate_limit_delay'[1] = 10 * rate_limit_delay'[2]
          /\ rate_limit_delay'[1] <= 10 * rate_limit_delay'[2]]_vars

(* Seven 429 responses in a row: the seventh doubling (6.4 to 12.8) is cut *)
(* to the ceiling.                                                         *)
C3_Witness ==
    /\ stats.rate_limit_429 >= 7
    /\ rate_limit_hits >= 7
    /\ rate_limit_delay = <<10, 1>>

(* C4: over every step that is not a 429 response (so over every success   *)
(* of a run of successes after throttling) the delay does not grow, and it *)
(* is not below the floor afterwards.                                      *)
C4_DecayMonotone ==
    [][faults'.n429 = faults.n429 =>
          /\ rate_limit_delay'[1] * rate_limit_delay[2]
                <= rate_limit_delay[1] * rate_limit_delay'[2]
          /\ HTML_REQUEST_DELAY[1] * rate_limit_delay'[2]
                <= rate_limit_delay'[1] * HTML_REQUEST_DELAY[2]]_vars

(* Two 429 responses, then two successes: the second one has brought the   *)
(* counter to 0 and the delay from 0.4 down to 0.32.                       *)
C4_Witness ==
    /\ stats.rate_limit_429 = 2
    /\ rate_limit_hits = 0
    /\ rate_limit_delay = <<8, 25>>


(* The number of leading non-empty pages of a catalog: the N of "pages     *)
(* 1..N are non-empty and page N+1 is empty".                              *)
LeadingPages(cat) ==
    CHOOSE n \in 0..Len(cat) :
        /\ \A i \in 1..n : cat[i] # <<>>
        /\ n = Len(cat) \/ cat[n + 1] = <<>>

PagesRequested == {obs.pageRequests[i] : i \in 1..Len(obs.pageRequests)}

PagesKnown == {obs.pageResults[i] : i \in 1..Len(obs.pageResults)}

(* C5: with pages 1..N non-empty and page N+1 empty (N below the page      *)
(* limit, no item limit, no page fetch failed), only pages 1..N+1 are ever *)
(* requested, and fetch_all_products returns pages 1..N concatenated in    *)
(* page order, having requested exactly the pages 1..N+1.                  *)
C5_Pagination ==
    LET N == LeadingPages(catalog)
    IN  (cfg.test_limit = 0 /\ N < max_pages /\ ~obs.pageFailed) =>
           /\ PagesRequested \subseteq 1..(N + 1)
           /\ task[Main].pc \notin FetchPcs =>
                 /\ all_products = Flatten(SubSeq(catalog, 1, N))
                 /\ PagesRequested = 1..(N + 1)

(* A catalog of two pages has been collected, its three products are       *)
(* handed to the first batch.                                              *)
C5_Witness ==
    /\ task[Main].pc = "gather"
    /\ cfg.test_limit = 0
    /\ ~obs.pageFailed
    /\ LeadingPages(catalog) = 2
    /\ Len(all_products) = 3
    /\ PagesRequested = {1, 2, 3}

(* C6: page fetches are sequential: when a page is requested, the result   *)
(* of every page before it is known, and pages are requested in order.     *)
C6_PagesSequential ==
    /\ \A i \in 1..Len(obs.pageRequests) :
          \A q \in 1..(obs.pageRequests[i] - 1) : q \in PagesKnown
    /\ \A i, j \in 1..Len(obs.pageRequests) :
          i <= j => obs.pageRequests[i] <= obs.pageRequests[j]

(* Page 1 was requested twice (a retry), then page 2.                      *)
C6_Witness ==
    /\ Len(obs.pageRequests) >= 3
    /\ obs.pageRequests[1] = 1
    /\ obs.pageRequests[2] = 1
    /\ obs.pageRequests[3] = 2

BatchNo(t) == (t - 1) \div batch_size

Started(t) == task[t].pc # "idle"

Ended(t) == task[t].pc = "done"

(* C7: no process_product task of a later batch has started unless every   *)
(* task of the earlier batches has ended, and at most batch_size products  *)
(* are being processed.                                                    *)
C7_BatchBarrier ==
    /\ \A t1, t2 \in ProductTasks :
          (BatchNo(t1) < BatchNo(t2) /\ Started(t2)) => Ended(t1)
    /\ Cardinality({t \in ProductTasks : Started(t) /\ ~Ended(t)}) <= batch_size

(* A task of the second batch is under way.                                *)
C7_Witness ==
    \E t \in ProductTasks :
        /\ BatchNo(t) = 1
        /\ task[t].pc \in FetchPcs \cup ImagePcs \cup {"save_open", "save_write"}

(* C8: no failure leaves process_product; when run has reached             *)
(* save_metadata (or has ended), every product of every batch has been     *)
(* processed to its end.                                                   *)
C8_FailuresContained ==
    /\ \A t \in ProductTasks : task[t].pc # "raised"
    /\ task[Main].pc \in {"stats_open", "stats_write", "done", "aborted"} =>
          \A t \in 1..Len(all_products) : task[t].pc = "done"

(* A failure was caught in a product of a run of two batches, and the run  *)
(* has written the statistics record.                                      *)
C8_Witness ==
    /\ task[Main].pc = "done"
    /\ metaFile.state = "complete"
    /\ ~obs.pageFailed
    /\ stats.errors > 0
    /\ Len(all_products) = 3

(* C9, as claimed: every failure caught (a page fetch, a metadata fetch, a *)
(* JSON write, an image download, process_product's own handler) has added *)
(* exactly 1 to stats['errors'].                                           *)
C9_EveryCaughtFailureCounted == stats.errors = obs.caught

----------------------------------------------------------------------------
(* C11: a product without handle never has its JSON file opened or         *)
(* written (no file BOOKS_DIR/.json appears, no such task is ever inside   *)
(* the write) and is never counted in books_fetched.                       *)
C11_NoHandleNeverSaved ==
    /\ "" \in DOMAIN bookFile => bookFile[""] = "absent"
    /\ \A t \in 1..Len(all_products) :
          Prod(t).handle = "" =>
             /\ task[t].pc \notin {"save_open", "save_write"}
             /\ t \notin obs.saved
    /\ stats.books_fetched = Cardinality(obs.saved)

(* A product without handle has been processed to its end next to a        *)
(* product that was saved and counted.                                     *)
C11_Witness ==
    /\ \E t \in 1..Len(all_products) :
          Prod(t).handle = "" /\ task[t].pc = "done"
    /\ stats.books_fetched = 1
    /\ task[Main].pc = "gather"

(* C12, as claimed: processing a product without handle issues no HTTP     *)
(* request (metadata page or image) and writes no file (JSON or image):    *)
(* its task is never inside a fetch, a request or a file operation.        *)
C12_NoHandleSkippedEntirely ==
    \A t \in 1..Len(all_products) :
        Prod(t).handle = "" =>
           task[t].pc \notin FetchPcs \cup {"save_open", "save_write"}
                                \cup {"img_request", "img_open", "img_write"}

(* C13, as claimed: after every write attempt the file                     *)
(* BOOKS_DIR/{handle}.json is complete or was not written at all: a file   *)
(* is empty or truncated only while a task is between opening it and       *)
(* completing the write.                                                   *)
C13_WriteAllOrNothing ==
    \A h \in DOMAIN bookFile :
        bookFile[h] = "partial" =>
           \E t \in 1..Len(all_products) :
               Prod(t).handle = h /\ task[t].pc = "save_write"

(* C14, as claimed: no fetch_json / fetch_html call ends in an error       *)
(* because of 429 responses.                                               *)
C14_ThrottlingNeverSurfaces == obs.throttleRaised = 0

(* C15: a fetch_json / fetch_html call has issued at most MAX_RETRIES + 2  *)
(* requests, throttled and failed attempts counted together, and a         *)
(* download_image call at most MAX_RETRIES; a call that has issued its     *)
(* last request is not on its way to another attempt.                      *)
C15_AttemptsBounded ==
    \A t \in TaskIds :
        IF task[t].pc \in ImagePcs
        THEN /\ obs.sent[t] <= MAX_RETRIES
             /\ obs.sent[t] = MAX_RETRIES =>
                   task[t].pc \in {"img_request", "img_open", "img_write"}
        ELSE /\ obs.sent[t] <= MAX_RETRIES + 2
             /\ obs.sent[t] = MAX_RETRIES + 2 =>
                   task[t].pc \in {"request", "throttle_wait", "body"}

(* A fetch_html call issues its last request, the one numbered             *)
(* MAX_RETRIES + 2, after throttled and failed attempts.                   *)
C15_Witness ==
    \E t \in ProductTasks :
        /\ task[t].pc = "request"
        /\ obs.sent[t] = MAX_RETRIES + 2
        /\ faults.n429 > 0
        /\ faults.nerr > 0

(* C16: over every step of every task, none of books_fetched,              *)
(* images_downloaded, errors and rate_limit_429 decreases.                 *)
C16_CountersMonotone ==
    [][/\ stats'.books_fetched >= stats.books_fetched
       /\ stats'.images_downloaded >= stats.images_downloaded
       /\ stats'.errors >= stats.errors
       /\ stats'.rate_limit_429 >= stats.rate_limit_429]_vars

(* Each of the four counters has been incremented in one run.              *)
C16_Witness ==
    /\ stats.books_fetched > 0
    /\ stats.images_downloaded > 0
    /\ stats.errors > 0
    /\ stats.rate_limit_429 > 0

(* C17: no update of the shared counters is lost under any interleaving:  *)
(* at every state, and so at the end of the run, rate_limit_429 is the     *)
(* number of 429 responses fetch_json / fetch_html have received and       *)
(* books_fetched the number of completed product-file writes (every       *)
(* complete product file has been counted); rate_limit_hits stays between  *)
(* 0 and the number of 429 responses.                                      *)
C17_NoLostUpdate ==
    /\ stats.rate_limit_429 = faults.n429
    /\ stats.books_fetched = Cardinality(obs.saved)
    /\ rate_limit_hits \in 0..faults.n429
    /\ Cardinality({h \in DOMAIN bookFile : bookFile[h] = "complete"})
          <= stats.books_fetched

(* The run has ended; more 429 responses were received than one call can   *)
(* take, by calls of different tasks, and two product files were written.  *)
C17_Witness ==
    /\ task[Main].pc = "done"
    /\ faults.n429 > MAX_RETRIES + 2
    /\ stats.rate_limit_429 = faults.n429
    /\ Cardinality(obs.saved) = 2
    /\ stats.books_fetched = 2

(* The products of the run have pairwise distinct handles.                 *)
DistinctHandles ==
    \A i, j \in 1..Len(all_products) :
        i # j => all_products[i].handle # all_products[j].handle

(* C18, as claimed: for products with pairwise distinct handles no two     *)
(* tasks running at the same time write the same path: no two tasks are    *)
(* inside the write of one JSON file, and of the download_image calls for  *)
(* one image path that overlapped in time at most one task has opened the  *)
(* file for writing.                                                       *)
C18_WritesPartitioned ==
    DistinctHandles =>
       /\ \A t1, t2 \in 1..Len(all_products) :
             (t1 # t2 /\ task[t1].pc \in {"save_open", "save_write"}
                     /\ task[t2].pc \in {"save_open", "save_write"})
                => Prod(t1).handle # Prod(t2).handle
       /\ \A p \in DOMAIN imageFile :
             obs.imgOverlap[p] => Cardinality(obs.writers[p]) <= 1

(* A step in which a fetch_json call of fetch_collection_page ends in      *)
(* failure.                                                                *)
PageFetchFails ==
    /\ task[Main].pc \in FetchPcs
    /\ Len(obs'.pageResults) > Len(obs.pageResults)
    /\ obs'.caught > obs.caught

(* C19: when the fetch of a listing page fails terminally, errors grows by *)
(* exactly 1, the pagination ends at that page (no page is requested       *)
(* afterwards) and fetch_all_products returns, without raising, the items  *)
(* of the pages collected so far, which run goes on to process.            *)
C19_PageFailureEndsPagination ==
    /\ [](obs.pageFailed => task[Main].pc \notin FetchPcs)
    /\ [][PageFetchFails =>
             /\ stats'.errors = stats.errors + 1
             /\ obs'.pageFailed
             /\ page' = page
             /\ all_products' = all_products
             /\ cfg.test_limit = 0 =>
                   all_products' = Flatten(SubSeq(catalog, 1, page - 1))
             /\ task'[Main].pc = IF all_products = <<>> THEN "returned"
                                                        ELSE "gather"
             /\ obs'.pageRequests = obs.pageRequests]_vars

(* The fetch of page 2 failed after page 1 was collected; the product of   *)
(* page 1 has been processed and the run has ended.                        *)
C19_Witness ==
    /\ obs.pageFailed
    /\ page = 2
    /\ Len(all_products) = 1
    /\ stats.errors = 1
    /\ stats.books_fetched = 1
    /\ task[Main].pc = "done"

(* C20: fetch_all_products requests no page beyond max_pages, also when    *)
(* every page is non-empty; when the page counter has passed the limit     *)
(* the pagination is over and what was collected is returned.              *)
C20_PageLimit ==
    /\ PagesRequested \subseteq 1..max_pages
    /\ page <= max_pages + 1
    /\ page > max_pages =>
          /\ task[Main].pc \notin FetchPcs
          /\ (cfg.test_limit = 0 /\ ~obs.pageFailed) =>
                all_products = Flatten(SubSeq(catalog, 1, max_pages))

(* A catalog whose pages are all non-empty: max_pages pages were           *)
(* requested and their products are handed to the first batch.             *)
C20_Witness ==
    /\ Len(catalog) > max_pages
    /\ \A n \in 1..(max_pages + 1) : ServedPage(catalog, n) # <<>>
    /\ PagesRequested = 1..max_pages
    /\ page = max_pages + 1
    /\ Len(all_products) = max_pages
    /\ task[Main].pc = "gather"

(* The concatenation of the first n pages of the catalog.                  *)
FirstPages(n) == Flatten(SubSeq(catalog, 1, n))

(* The page on which the number of items collected first reaches L: the    *)
(* first empty page when the catalog holds fewer than L items.             *)
ReachPage(L) ==
    LET N == LeadingPages(catalog)
    IN  IF Len(FirstPages(N)) < L THEN N + 1
        ELSE CHOOSE n \in 1..N :
                /\ Len(FirstPages(n)) >= L
                /\ \A m \in 1..(n - 1) : Len(FirstPages(m)) < L

(* C21: with an item limit L (no page fetch failing, the page limit not    *)
(* reached before), no page after the one on which the count first reaches *)
(* L is requested, and fetch_all_products returns exactly the first        *)
(* min(L, total) items of the page concatenation.                          *)
C21_ItemLimit ==
    LET L == cfg.test_limit
        total == FirstPages(LeadingPages(catalog))
    IN  (L > 0 /\ ~obs.pageFailed /\ ReachPage(L) <= max_pages) =>
           /\ PagesRequested \subseteq 1..ReachPage(L)
           /\ task[Main].pc \notin FetchPcs =>
                 /\ PagesRequested = 1..ReachPage(L)
                 /\ all_products =
                       SubSeq(total, 1, IF L < Len(total) THEN L ELSE Len(total))

(* The limit 2 was reached on page 2 of three, whose second item was cut   *)
(* off; page 3 was not requested.                                          *)
C21_Witness ==
    /\ cfg.test_limit = 2
    /\ Len(catalog) = 3
    /\ Len(FirstPages(2)) = 3
    /\ PagesRequested = {1, 2}
    /\ Len(all_products) = 2
    /\ task[Main].pc = "gather"

(* The scenario of C22: page 1 holds two products of distinct non-empty    *)
(* handles, page 2 is empty, metadata and image fetching are disabled, no  *)
(* item limit; and nothing has failed or been throttled.                   *)
TwoProductsPlainRun ==
    /\ ~cfg.fetch_html_metadata
    /\ ~cfg.download_images
    /\ cfg.test_limit = 0
    /\ Len(catalog) = 1
    /\ Len(catalog[1]) = 2
    /\ catalog[1][1].handle # ""
    /\ catalog[1][2].handle # ""
    /\ catalog[1][1].handle # catalog[1][2].handle
    /\ faults.nerr = 0
    /\ faults.n429 = 0

(* C22: in that scenario the run goes on until it has ended (it neither    *)
(* aborts nor stops early), and has then written exactly 2 product files,  *)
(* with books_fetched = 2 and errors = 0.                                  *)
C22_TwoProductsRun ==
    TwoProductsPlainRun =>
       /\ task[Main].pc \notin {"aborted", "returned"}
       /\ task[Main].pc # "done" => ENABLED Next
       /\ task[Main].pc = "done" =>
             /\ PagesRequested = {1, 2}
             /\ {h \in DOMAIN bookFile : bookFile[h] # "absent"}
                   = {catalog[1][1].handle, catalog[1][2].handle}
             /\ \A h \in DOMAIN bookFile : bookFile[h] = "complete"
             /\ stats.books_fetched = 2
             /\ stats.errors = 0
             /\ metaFile.state = "complete"

(* The run of that scenario has ended.                                     *)
C22_Witness ==
    /\ TwoProductsPlainRun
    /\ task[Main].pc = "done"
    /\ stats.books_fetched = 2
    /\ stats.end_time

(* A step in which a request of task t's download_image fails (an error   *)
(* status such as 500, a transport error, a timeout).                      *)
ImageRequestFails(t) ==
    /\ task[t].pc = "img_request"
    /\ task'[t] # task[t]
    /\ faults'.nerr = faults.nerr + 1

(* C23: for a product with handle and a single image, a failing image      *)
(* request changes no file and neither images_downloaded nor               *)
(* books_fetched; it counts no error while attempts remain (the download   *)
(* is retried) and exactly 1 error when it was the last attempt, after     *)
(* which the product is done; a product file that was written stays        *)
(* complete.                                                               *)
C23_ImageFailureCountedOnce ==
    /\ [](DistinctHandles =>
            \A t \in obs.saved : bookFile[Prod(t).handle] = "complete")
    /\ [][\A t \in ProductTasks :
             (ImageRequestFails(t) /\ Prod(t).handle # ""
                                  /\ Len(Prod(t).images) = 1) =>
                /\ stats'.images_downloaded = stats.images_downloaded
                /\ stats'.books_fetched = stats.books_fetched
                /\ bookFile' = bookFile
                /\ imageFile' = imageFile
                /\ obs'.saved = obs.saved
                /\ IF obs.sent[t] < MAX_RETRIES
                   THEN /\ stats'.errors = stats.errors
                        /\ task'[t].pc = "img_backoff"
                   ELSE /\ stats'.errors = stats.errors + 1
                        /\ task'[t].pc = "done"]_vars

(* Every attempt for the single image of a product has failed: the image   *)
(* file does not exist, one error is counted, no image, and the product's  *)
(* JSON file is written and counted.                                       *)
C23_Witness ==
    \E t \in 1..Len(all_products) :
        /\ Prod(t).handle # ""
        /\ Len(Prod(t).images) = 1
        /\ task[t].pc = "done"
        /\ obs.imgReqs[ImgPath(Prod(t), 1)] = MAX_RETRIES
        /\ faults.nerr = MAX_RETRIES
        /\ imageFile[ImgPath(Prod(t), 1)] = "absent"
        /\ stats.errors = 1
        /\ stats.images_downloaded = 0
        /\ t \in obs.saved
        /\ bookFile[Prod(t).handle] = "complete"
        /\ stats.books_fetched >= 1

(* A step in which a fetch_json / fetch_html request gets a response that  *)
(* passes raise_for_status.                                                *)
FetchSucceeds ==
    \E t \in TaskIds : task[t].pc = "request" /\ task'[t].pc = "body"

(* C24: a success with rate_limit_hits = c > 0 sets the counter to c - 1;  *)
(* the delay becomes max(floor, delay * 0.8) exactly when c = 1, that is   *)
(* when the counter reaches 0 by that decrement, and is unchanged          *)
(* otherwise; a success with the counter at 0 changes neither.             *)
C24_SuccessStep ==
    [][FetchSucceeds =>
          /\ rate_limit_hits' = IF rate_limit_hits > 0 THEN rate_limit_hits - 1
                                                      ELSE 0
          /\ IF rate_limit_hits = 1
             THEN IF 4 * rate_limit_delay[1] * 10 >= 5 * rate_limit_delay[2]
                  THEN 5 * rate_limit_delay'[1] * rate_limit_delay[2]
                          = 4 * rate_limit_delay[1] * rate_limit_delay'[2]
                  ELSE rate_limit_delay'[1] * 10 = rate_limit_delay'[2]
             ELSE rate_limit_delay' = rate_limit_delay]_vars

(* After two 429 responses a first success has taken the counter from 2 to *)
(* 1 and left the delay at 0.4.                                            *)
C24_Witness ==
    /\ faults.n429 = 2
    /\ rate_limit_hits = 1
    /\ rate_limit_delay = <<2, 5>>
    /\ \E t \in TaskIds : task[t].pc = "body"

(* C25, as claimed (under SpecRecovery, where from some point on no 429    *)
(* is received and successes keep arriving): the delay eventually returns  *)
(* to the floor HTML_REQUEST_DELAY, and stays there.                       *)
C25_DelayReturnsToFloor == <>[](rate_limit_delay = HTML_REQUEST_DELAY)

(* C26, as claimed: the 429 responses a call has received do not use up   *)
(* its attempts for transient errors: a fetch_json / fetch_html call that  *)
(* fails terminally on a transient error has made as many transient-error  *)
(* attempts as a call that was never throttled makes, MAX_RETRIES + 2.     *)
C26_ThrottlingOutsideRetryBudget ==
    [][\A t \in TaskIds :
          (/\ task[t].pc \in {"request", "body"}
           /\ faults'.nerr = faults.nerr + 1
           /\ task'[t].pc \notin FetchPcs) =>
             obs.sent[t] - obs.throttled[t] = MAX_RETRIES + 2]_vars

(* A step in which task t's request is answered with a 429.                *)
ThrottledStep(t) ==
    /\ task[t].pc = "request"
    /\ faults'.n429 = faults.n429 + 1
    /\ task'[t] # task[t]

(* C27: after a 429 at attempt index i the call waits, for the value of    *)
(* the Retry-After header when the response has one and else for the delay *)
(* this 429 has doubled times (i + 1), and after the wait it makes attempt *)
(* i + 1 for the same page when the loop has one left.                     *)
C27_ThrottleWait ==
    /\ [][\A t \in TaskIds :
            ThrottledStep(t) =>
              /\ task'[t].pc = "throttle_wait"
              /\ task'[t].attempt = task[t].attempt
              /\ task'[t].wait =
                   IF task'[t].hdr.present
                   THEN <<task'[t].hdr.seconds, 1>>
                   ELSE RatMul(ThrottledDelay(rate_limit_delay),
                               <<task[t].attempt + 1, 1>>)]_vars
    /\ [][\A t \in TaskIds :
            (task[t].pc = "throttle_wait" /\ task'[t].pc \in FetchPcs) =>
              /\ task'[t].pc = "acquire"
              /\ task'[t].attempt = task[t].attempt + 1
              /\ page' = page]_vars

(* A step in which task t's attempt ends in a transient error.             *)
TransientStep(t) ==
    /\ task[t].pc \in {"request", "body"}
    /\ faults'.nerr = faults.nerr + 1
    /\ task'[t] # task[t]

C29_ImagesUseDelayState ==
    /\ [][\A t \in TaskIds :
            (/\ task'[t].pc \in {"request", "img_request"}
             /\ task[t].pc # task'[t].pc) => task[t].pc = "delay"]_vars
    /\ [][faults'.i429 = faults.i429 + 1 =>
            /\ rate_limit_hits' = ThrottledHits(rate_limit_hits)
            /\ rate_limit_delay' = ThrottledDelay(rate_limit_delay)
            /\ stats'.rate_limit_429 = stats.rate_limit_429 + 1]_vars

(* C30: when save_metadata has written the statistics, every product's     *)
(* task has ended, and the record written holds the time the run started   *)
(* and the time it ended.                                                  *)
C30_StatsWrittenAtRunEnd ==
    metaFile.state = "complete" =>
        /\ \A t \in 1..Len(all_products) : task[t].pc = "done"
        /\ metaFile.written.start_time
        /\ metaFile.written.end_time

(* C31: when fetch_all_products returns no items (the first page was empty *)
(* or its fetch failed), run returns at once without raising: no product   *)
(* task is started, no product file and no statistics file is written, and *)
(* nothing runs afterwards.                                                *)
C31_EmptyCatalogStops ==
    /\ [][(/\ task[Main].pc \in FetchPcs
           /\ task'[Main].pc \notin FetchPcs
           /\ all_products' = <<>>) => task'[Main].pc = "returned"]_vars
    /\ [](task[Main].pc = "returned" =>
            /\ all_products = <<>>
            /\ \A t \in ProductTasks : task[t].pc = "idle"
            /\ \A h \in DOMAIN bookFile : bookFile[h] = "absent"
            /\ \A p \in DOMAIN imageFile : imageFile[p] = "absent"
            /\ metaFile.state = "absent"
            /\ obs.saved = {}
            /\ ~ENABLED Next)

(* run has returned after the fetch of the first page failed.              *)
C31_Witness ==
    /\ task[Main].pc = "returned"
    /\ obs.pageFailed
    /\ obs.pageResults = <<1>>

(* The call of download_image for task t's current image ends in this      *)
(* step: it returns, or raises into the handler of lines 480-482.          *)
ImageEnds(t) ==
    /\ task[t].pc \in ImagePcs
    /\ task'[t] # task[t]
    /\ task'[t].pc \notin ImagePcs \/ task'[t].idx # task[t].idx

(* The image task t works on after the step (one past the list when the    *)
(* loop is over).                                                          *)
ImageAfter(t) ==
    IF task'[t].pc \in ImagePcs THEN task'[t].idx ELSE Len(Prod(t).images) + 1

(* Images from to to of task t's product were passed in this step without  *)
(* suspending: each has no URL (skipped) or a file (download_image         *)
(* returned True); the image the task stops at has a URL and no file, and  *)
(* the task is about to request it.                                        *)
PassedInOrder(t, from, to) ==
    /\ \A j \in from..(to - 1) :
          \/ Prod(t).images[j].src = ""
          \/ imageFile'[ImgPath(Prod(t), j)] # "absent"
    /\ to <= Len(Prod(t).images) =>
          /\ Prod(t).images[to].src # ""
          /\ task'[t].pc = "img_acquire"

(* The downloads among images from to to - 1 that returned True.           *)
FoundPresent(t, from, to) ==
    Cardinality({j \in from..(to - 1) : Prod(t).images[j].src # ""})

(* C32: in download_book_images an image without URL is skipped and counts *)
(* no error; an image whose download fails for good counts exactly one     *)
(* error; in both cases the loop goes on with the remaining images in list *)
(* order, and images_downloaded grows by the number of downloads that      *)
(* returned True.  (On the way into the loop the only error counted is     *)
(* that of a failed save_book_data.)                                       *)
C32_ImageLoopGoesOn ==
    /\ [][\A t \in ProductTasks :
            ImageEnds(t) =>
              /\ ImageAfter(t) > task[t].idx
              /\ task'[t].pc \notin ImagePcs => task'[t].pc = "done"
              /\ PassedInOrder(t, task[t].idx + 1, ImageAfter(t))
              /\ stats'.errors =
                   stats.errors + (IF faults'.nerr > faults.nerr THEN 1 ELSE 0)
              /\ stats'.images_downloaded =
                   stats.images_downloaded
                     + (IF faults'.nerr > faults.nerr THEN 0 ELSE 1)
                     + FoundPresent(t, task[t].idx + 1, ImageAfter(t))]_vars
    /\ [][\A t \in ProductTasks :
            (task[t].pc \notin ImagePcs /\ task'[t].pc \in ImagePcs) =>
              /\ PassedInOrder(t, 1, ImageAfter(t))
              /\ stats'.errors =
                   stats.errors
                     + (IF /\ task[t].pc \in {"save_open", "save_write"}
                           /\ faults'.nerr > faults.nerr
                        THEN 1 ELSE 0)
              /\ stats'.images_downloaded =
                   stats.images_downloaded + FoundPresent(t, 1, ImageAfter(t))]_vars

(* The second image of a product has failed for good after the first was   *)
(* skipped for want of a URL, and the task is about to request the third.  *)
C32_Witness ==
    \E t \in ProductTasks :
        /\ task[t].pc = "img_acquire"
        /\ task[t].idx = 3
        /\ Prod(t).images[1].src = ""
        /\ imageFile[ImgPath(Prod(t), 2)] = "absent"
        /\ stats.errors = 1

(* The extension C33 states: the text after the last dot of the final      *)
(* segment of the path, jpg when that segment holds no dot.                *)
SegmentExt(path) ==
    LET seg == LastPart(path, "/")
    IN  IF LastIndexOf(seg, ".") > 0 THEN LastPart(seg, ".")
        ELSE <<"j", "p", "g">>

(* C33: the file name of the image at index i is id.ext for i = 0 and      *)
(* id_i.ext for i > 0, where id is the first variant's SKU or, when that   *)
(* is empty, the product's id, and ext is the text after the last dot of   *)
(* the final segment of the URL path, or jpg when that segment has no dot. *)
C33_ImageFilename ==
    task[1].pc = "img_download" =>
        LET prod == all_products[1]
            i == task[1].idx - 1
            id == IF prod.variants # <<>> /\ prod.variants[1].sku # ""
                  THEN prod.variants[1].sku ELSE prod.id
            ext == SegmentExt(prod.images[i + 1].src)
        IN  obs.filename = IF i = 0 THEN <<id, ".">> \o ext
                           ELSE <<id, "_", i, ".">> \o ext

(* The terms of the page that are fields and have a dd after them.         *)
FieldsOnPage(html) ==
    {html[i].text : i \in {j \in 1..Len(html) :
        /\ html[j].tag = "dt"
        /\ html[j].text \in HTML_METADATA_FIELDS
        /\ \E k \in (j + 1)..Len(html) : html[k].tag = "dd"}}

(* C34: the record written has an _html_metadata block only if metadata    *)
(* fetching is enabled and the extraction yielded a field; the keys of the *)
(* block are exactly the canonical names of the fields extracted; a term   *)
(* of the page that is no field is neither in the extraction result nor,   *)
(* by its own or a canonical name, in the block.                           *)
C34_HtmlMetadataBlock ==
    /\ DOMAIN obs.html_metadata \subseteq FieldsOnPage(catalog[1])
    /\ task[1].pc = "saved" =>
         /\ "_html_metadata" \in obs.record.keys =>
               /\ cfg.fetch_html_metadata
               /\ obs.html_metadata # <<>>
               /\ FieldsOnPage(catalog[1]) # {}
         /\ DOMAIN obs.record.html =
               {metadata_mapping[k] : k \in DOMAIN obs.html_metadata}
         /\ \A k \in DOMAIN obs.html_metadata :
               obs.record.html[metadata_mapping[k]] = obs.html_metadata[k]
         /\ (cfg.fetch_html_metadata /\ faults.nerr = 0) =>
               DOMAIN obs.html_metadata = FieldsOnPage(catalog[1])

(* A record with a block of two keys was written from a page that also     *)
(* holds a term that is no field.                                          *)
C34_Witness ==
    /\ task[1].pc = "saved"
    /\ "_html_metadata" \in obs.record.keys
    /\ Cardinality(DOMAIN obs.record.html) = 2
    /\ \E i \in 1..Len(catalog[1]) :
          /\ catalog[1][i].tag = "dt"
          /\ catalog[1][i].text \notin HTML_METADATA_FIELDS

(* Integer v is a nearest integer of the number the match n writes.        *)
IsNearest(v, n) ==
    LET d == Decimal(n)
        unit == 10^(d.places)
        diff == IF v * unit >= d.num THEN v * unit - d.num ELSE d.num - v * unit
    IN  2 * diff <= unit

(* C35: a dimensions text with at least two numeric tokens yields an       *)
(* ordered triple of integers, each a token rounded to the nearest         *)
(* integer, in the order of the text; a text with fewer than two numeric   *)
(* tokens keeps the field as the text it was.                              *)
C35_DimensionsTriple ==
    task[1].pc = "stored" =>
        LET nums == FindNums(ReplaceTimes(catalog[1]), 1)
        IN  IF Len(nums) >= 2
            THEN /\ obs.list
                 /\ Len(obs.value) = 3
                 /\ \A i \in 1..3 : IsNearest(obs.value[i], nums[i])
            ELSE /\ ~obs.list
                 /\ obs.value = catalog[1]

(* run has ended: it returned, or an exception left it.                    *)
RunEnded == task[Main].pc \in {"done", "returned", "aborted"}

WaitsForSlot(t) == task[t].pc \in {"acquire", "img_acquire"}

(* C36: under fair scheduling, whatever the responses are, run ends, and   *)
(* from some point on no task waits for a slot and none holds one: no task *)
(* waits for a slot forever and every holder gives its slot up; a slot is  *)
(* only ever taken by a task that holds none.                              *)
C36_RunTerminates ==
    /\ <>[](/\ RunEnded
            /\ \A t \in TaskIds : ~WaitsForSlot(t) /\ t \notin Holders)
    /\ [][sem' < sem =>
            \E t \in TaskIds : t \notin Holders /\ t \in Holders']_vars

(* run has ended after a product task had to wait for the slot another     *)
(* task kept through the wait after a 429.                                 *)
C36_Witness ==
    /\ RunEnded
    /\ faults.n429 > 0
    /\ stats.books_fetched > 0

(* A task leaves one of the waits of fetch_json / fetch_html.              *)
WaitEnds(t, pc) == task[t].pc = pc /\ task'[t] # task[t]

(* C37: a task keeps its slot through the sleep before the request and     *)
(* through the wait after a 429, and gives it back only when the wait is   *)
(* over; the back-off after a transient error is spent without a slot,     *)
(* which was given back when the attempt failed.  So while SEMAPHORE_LIMIT *)
(* tasks are in the wait after a 429 no slot is free and no task can issue *)
(* a request of any kind.                                                  *)
C37_SlotKeptWhileThrottled ==
    /\ [](\A t \in TaskIds :
            /\ task[t].pc \in {"delay", "throttle_wait"} => t \in Holders
            /\ task[t].pc = "backoff" => t \notin Holders)
    /\ [][\A t \in TaskIds :
            /\ (task[t].pc = "request" /\ task'[t].pc = "throttle_wait") =>
                  sem' = sem
            /\ WaitEnds(t, "throttle_wait") => sem' = sem + 1
            /\ (task[t].pc \in {"request", "body"} /\ task'[t].pc = "backoff") =>
                  sem' = sem + 1
            /\ WaitEnds(t, "backoff") =>
                  sem' = sem /\ task'[t].pc = "acquire"]_vars
    /\ [](Cardinality({t \in TaskIds : task[t].pc = "throttle_wait"})
              = SEMAPHORE_LIMIT =>
            /\ sem = 0
            /\ ~ENABLED (\E t \in TaskIds : Acquire(t) \/ ImgAcquire(t))
            /\ InFlight = {})

(* A product task waits for a slot while the only slot is kept by a task   *)
(* in its wait after a 429.                                                *)
C37_Witness ==
    /\ Cardinality({t \in TaskIds : task[t].pc = "throttle_wait"})
          = SEMAPHORE_LIMIT
    /\ \E t \in TaskIds : task[t].pc \in {"acquire", "img_acquire"}

(* C38: the slots are conserved.  The slots held and the free ones are     *)
(* SEMAPHORE_LIMIT together; a task that leaves the "async with", by       *)
(* whatever way (return, the retry after a 429, an exception of the        *)
(* request or of the file write), gives back the one slot it held; when    *)
(* run has ended every slot is free.                                       *)
C38_SlotsConserved ==
    /\ [](Cardinality(Holders) + sem = SEMAPHORE_LIMIT)
    /\ [](RunEnded => sem = SEMAPHORE_LIMIT /\ Holders = {})
    /\ [][\A t \in TaskIds :
            (t \in Holders /\ t \notin Holders') =>
                /\ sem' = sem + 1
                /\ Holders' = Holders \ {t}]_vars

(* An image download has left download_image by an exception of the file   *)
(* write, and the slot is free again.                                      *)
C38_Witness ==
    /\ sem = SEMAPHORE_LIMIT
    /\ \E p \in DOMAIN imageFile : imageFile[p] = "partial"
    /\ \A t \in TaskIds : task[t].pc \notin ImagePcs
    /\ obs.caught > 0

(* C39: an attempt of fetch_json / fetch_html that fails with a connection *)
(* error, a timeout or an error status leaves rate_limit_delay,            *)
(* rate_limit_hits and rate_limit_429 as they were, in the step that fails *)
(* and in the steps of the attempt before it; errors changes only when the *)
(* failure ends the call and the caller catches it.                        *)
C39_FailedAttemptWritesNothing ==
    [][\A t \in TaskIds :
          TransientStep(t) =>
              /\ ~task[t].wrote
              /\ rate_limit_delay' = rate_limit_delay
              /\ rate_limit_hits' = rate_limit_hits
              /\ stats'.rate_limit_429 = stats.rate_limit_429
              /\ stats'.errors # stats.errors =>
                    /\ task'[t].pc \notin FetchPcs
                    /\ stats'.errors = stats.errors + 1
                    /\ obs'.caught = obs.caught + 1]_vars

(* The images of task t's product for which download_image returned True   *)
(* in this step: those passed because their file exists, and the current   *)
(* one unless the step is its failure.                                     *)
ReturnedTrue(t) ==
    LET lo == IF task[t].pc \notin ImagePcs THEN 1
              ELSE IF faults'.nerr > faults.nerr THEN task[t].idx + 1
              ELSE task[t].idx
    IN  {j \in lo..(ImageAfter(t) - 1) : Prod(t).images[j].src # ""}

(* C40: when download_image returns True, and the image is counted in      *)
(* images_downloaded, the file holds the complete body of a response; no   *)
(* call returns True for a file that was created and not written to the    *)
(* end.                                                                    *)
C40_TrueMeansComplete ==
    [][\A t \in ProductTasks :
          (/\ task'[t] # task[t]
           /\ stats'.images_downloaded > stats.images_downloaded) =>
              \A j \in ReturnedTrue(t) :
                  imageFile'[ImgPath(Prod(t), j)] = "complete"]_vars

============================================================================
